---- MODULE Spec2Model ----
(***************************************************************************)
(* Model of the product scraper of the tracking bot (src/scraper.py,       *)
(* src/config.py): ProductScraper.get_product_info with its retry loop,    *)
(* the price normalizer _clean_price and the per-site / generic extraction *)
(* routines, over an abstract document tree.                               *)
(*                                                                         *)
(* Text is modelled by TLA+ strings (TLC evaluates Len, SubSeq and \o on   *)
(* them).  Python's None is the empty tuple <<>>, a present value x is the *)
(* one-element tuple <<x>>.  A float is the pair <<n, d>> standing for     *)
(* n / 10^d, with no trailing zero in the fraction (199.90 is <<1999, 1>>, *)
(* 1234.56 is <<123456, 2>>, 123456.0 is <<123456, 0>>).                   *)
(***************************************************************************)
EXTENDS Integers, Sequences, FiniteSets, TLC

VARIABLES
    pc,        \* per caller: position inside get_product_info
    store_id,  \* per caller: argument store_id
    url,       \* per caller: argument url
    attempt,   \* per caller: loop variable of `for attempt in range(3)`
    response,  \* per caller: local `response` (None, or status and body)
    result,    \* per caller: value returned (None or a product record)
    outcome,   \* per caller: which return statement produced `result`
    headers,   \* self.session.headers: the shared User-Agent and Referer
    sent,      \* per caller: headers carried by the caller's latest request
    nreq,      \* per caller: number of session.get calls of the current call
    waits,     \* per caller: the backoff sleeps (seconds) of the current call
    fails,     \* per caller: how each failed attempt of the current call failed
    first,     \* per caller: the first response the current call received: whether
               \* it carried an anti-bot marker, and the number of the request
    last,      \* the extraction that the previous call with the same arguments
               \* returned: store, url, body, result (None if there is none)
    price_in,  \* argument price_str of _clean_price
    cleaned,   \* None before _clean_price has returned, then Some(its value)
    bot_module,   \* which TelegramBot runs: "bot" (src/bot.py) or "bot_v13" (src/bot_v13.py)
    table,        \* the products table of the database: product id -> row
    products,     \* _check_all_products: the list get_all_products returned
    idx,          \* _check_all_products: position of the loop in `products`
    spc,          \* _check_all_products: position of the sweep
    product_info, \* _check_all_products: what get_product_info returned for the product
    checked,      \* ids of the products passed to get_product_info, in order, this sweep
    failed,       \* ids of the products whose check failed this sweep (None or an exception)
    outbox,       \* the messages bot.send_message delivered this sweep: chat_id, product_id
    ex_call,      \* one parse-and-dispatch step on its own: store id, page and URL
    ex_ret,       \* what that step returned, None before it
    users,        \* the users table of the database: user id -> is_admin, is_authorized
    serial,       \* the last id the products table's SERIAL column handed out
    conv,         \* ConversationHandler.conversations: user id -> state of the track flow
    user_data,    \* context.user_data: user id -> what the handlers stored for the user
    event         \* the update a handler took last, the handler, whether it accepted
                  \* the request, and the get_product_info call it made; None once an
                  \* update was taken by no handler

vars == <<pc, store_id, url, attempt, response, result, outcome, headers,
          sent, nreq, waits, fails, first, last, price_in, cleaned,
          bot_module, table, products, idx, spc, product_info, checked, failed, outbox,
          ex_call, ex_ret, users, serial, conv, user_data, event>>

\* the locals of the get_product_info calls, and their history
call_vars == <<pc, store_id, url, attempt, response, result, outcome,
               sent, nreq, waits, fails, first, last>>

\* the state of the scraper, and of one _clean_price call
scraper_vars == <<pc, store_id, url, attempt, response, result, outcome, headers,
                  sent, nreq, waits, fails, first, last>>

price_vars == <<price_in, cleaned>>

\* the state of the periodic sweep and of the database
sweep_vars == <<bot_module, table, products, idx, spc, product_info, checked, failed, outbox>>

\* the state of one parse-and-dispatch step taken on its own
extract_vars == <<ex_call, ex_ret>>

\* the state of the dispatcher and of the users table
bot_vars == <<users, serial, conv, user_data, event>>

\* what the scraper's steps leave alone
other_vars == <<price_vars, sweep_vars, extract_vars, bot_vars>>

\* no update is dispatched: no user, no conversation
BotOff == users = <<>> /\ serial = 0 /\ conv = <<>> /\ user_data = <<>> /\ event = <<>>

\* no parse-and-dispatch step of its own is modelled
ExtractOff == ex_call = <<>> /\ ex_ret = <<>>

\* no _clean_price call of its own is modelled
PriceIdle == price_in = "" /\ cleaned = <<>>

\* no sweep is modelled: the job is not scheduled and the table is empty
SweepOff ==
    /\ bot_module = "bot_v13"
    /\ table = <<>>
    /\ products = <<>>
    /\ idx = 0
    /\ spc = "off"
    /\ product_info = <<>>
    /\ checked = <<>>
    /\ failed = <<>>
    /\ outbox = <<>>

-----------------------------------------------------------------------------
(* Option values *)

None == <<>>

Some(x) == <<x>>

Val(o) == o[1]

\* a or b, for two option values: the first that is present
OrElse(a, b) == IF a # None THEN a ELSE b

\* `v` under the name the operator F gives it (a local variable assigned once)
With(v, F(_)) == F(v)

-----------------------------------------------------------------------------
(* Strings: the str methods the scraper uses *)

Ch(s, i) == SubSeq(s, i, i)

Drop(s, k) == SubSeq(s, k + 1, Len(s))

Take(s, k) == SubSeq(s, 1, k)

DigitChars == "0123456789"

LowerChars == "abcdefghijklmnopqrstuvwxyzüöç"

UpperChars == "ABCDEFGHIJKLMNOPQRSTUVWXYZÜÖÇ"

InChars(c, alphabet) == \E i \in 1..Len(alphabet) : Ch(alphabet, i) = c

IndexIn(c, alphabet) == CHOOSE i \in 1..Len(alphabet) : Ch(alphabet, i) = c

IsDigit(c) == InChars(c, DigitChars)

IsSpace(c) == c = " " \/ c = "\n" \/ c = "\t"

LowerCh(c) == IF InChars(c, UpperChars) THEN Ch(LowerChars, IndexIn(c, UpperChars)) ELSE c

UpperCh(c) == IF InChars(c, LowerChars) THEN Ch(UpperChars, IndexIn(c, LowerChars)) ELSE c

\* str.lower(), character by character (by halves, to keep the evaluation shallow)
RECURSIVE Lower(_)
Lower(s) ==
    IF Len(s) <= 1 THEN LowerCh(s)
    ELSE Lower(Take(s, Len(s) \div 2)) \o Lower(Drop(s, Len(s) \div 2))

\* str.capitalize(): first character upper-cased, every other one lower-cased
Capitalize(s) == IF s = "" THEN "" ELSE UpperCh(Ch(s, 1)) \o Lower(Drop(s, 1))

StartsWith(s, p) == Len(s) >= Len(p) /\ Take(s, Len(p)) = p

EndsWith(s, p) == Len(s) >= Len(p) /\ SubSeq(s, Len(s) - Len(p) + 1, Len(s)) = p

\* `sub in s`
Contains(s, sub) == \E i \in 0..(Len(s) - Len(sub)) : SubSeq(s, i + 1, i + Len(sub)) = sub

\* index of the first occurrence of sub in s at or after position 1, 0 if none
Find(s, sub) ==
    IF Contains(s, sub)
    THEN CHOOSE i \in 1..(Len(s) - Len(sub) + 1) :
            /\ SubSeq(s, i, i + Len(sub) - 1) = sub
            /\ \A j \in 1..(i - 1) : SubSeq(s, j, j + Len(sub) - 1) # sub
    ELSE 0

\* s.replace(old, new) for a non-empty old
RECURSIVE Replace(_, _, _)
Replace(s, old, new) ==
    IF Len(s) < Len(old) THEN s
    ELSE IF Take(s, Len(old)) = old THEN new \o Replace(Drop(s, Len(old)), old, new)
    ELSE Ch(s, 1) \o Replace(Drop(s, 1), old, new)

\* s.split(sep) for a one-character sep: the list of fields, empty ones included
RECURSIVE Split(_, _)
Split(s, sep) ==
    With(Find(s, sep), LAMBDA i :
        IF i = 0 THEN <<s>> ELSE <<Take(s, i - 1)>> \o Split(Drop(s, i), sep))

RECURSIVE LStrip(_)
LStrip(s) == IF s # "" /\ IsSpace(Ch(s, 1)) THEN LStrip(Drop(s, 1)) ELSE s

RECURSIVE RStrip(_)
RStrip(s) == IF s # "" /\ IsSpace(Ch(s, Len(s))) THEN RStrip(Take(s, Len(s) - 1)) ELSE s

\* s.strip()
Strip(s) == RStrip(LStrip(s))

\* the longest prefix of s made of digits
RECURSIVE DigitRun(_)
DigitRun(s) == IF s # "" /\ IsDigit(Ch(s, 1)) THEN Ch(s, 1) \o DigitRun(Drop(s, 1)) ELSE ""

RECURSIVE DigitsValue(_)
DigitsValue(s) ==
    IF s = "" THEN 0
    ELSE 10 * DigitsValue(Take(s, Len(s) - 1)) + (IndexIn(Ch(s, Len(s)), DigitChars) - 1)

-----------------------------------------------------------------------------
(* Floats *)

RECURSIVE Normal(_, _)
Normal(n, d) == IF d > 0 /\ n % 10 = 0 THEN Normal(n \div 10, d - 1) ELSE <<n, d>>

\* the float written as `whole`.`frac` (two digit strings)
Decimal(whole, frac) == Normal(DigitsValue(whole \o frac), Len(frac))

\* float(s) of a string: Some(value), or None where Python raises ValueError.
\* The texts of the model carry no sign, exponent, inf or nan.
Float(s) ==
    With(Strip(s), LAMBDA t :
    With(DigitRun(t), LAMBDA whole :
    With(Drop(t, Len(whole)), LAMBDA rest :
    With(IF StartsWith(rest, ".") THEN DigitRun(Drop(rest, 1)) ELSE "", LAMBDA frac :
        IF /\ Len(whole) + (IF StartsWith(rest, ".") THEN 1 + Len(frac) ELSE 0) = Len(t)
           /\ Len(whole) + Len(frac) > 0
        THEN Some(Decimal(whole, frac))
        ELSE None))))

-----------------------------------------------------------------------------
(* Price normalizer *)

\* re.sub(r'[^\d.,]', '', s)
RECURSIVE KeepPriceChars(_)
KeepPriceChars(s) ==
    IF s = "" THEN ""
    ELSE (IF InChars(Ch(s, 1), "0123456789.,") THEN Ch(s, 1) ELSE "") \o KeepPriceChars(Drop(s, 1))

\* re.search(r'\d+(?:\.\d+)?', s): the matched text, or None
RECURSIVE FirstNumber(_)
FirstNumber(s) ==
    IF s = "" THEN None
    ELSE IF IsDigit(Ch(s, 1))
    THEN With(DigitRun(s), LAMBDA whole :
         With(Drop(s, Len(whole)), LAMBDA rest :
         With(IF StartsWith(rest, ".") THEN DigitRun(Drop(rest, 1)) ELSE "", LAMBDA frac :
             Some(IF frac = "" THEN whole ELSE whole \o "." \o frac))))
    ELSE FirstNumber(Drop(s, 1))

\* float(match.group()) of a re.search result
FloatOfMatch(m) == IF m = None THEN None ELSE Float(Val(m))

\* ProductScraper._clean_price
CleanPrice(price_str) ==
    IF price_str = "" THEN None
    ELSE FloatOfMatch(FirstNumber(Replace(Replace(KeepPriceChars(price_str), ".", ""), ",", ".")))

-----------------------------------------------------------------------------
(* Configuration: src/config.py and ProductScraper.__init__ *)

\* line 85: for attempt in range(3)
MaxAttempts == 3

\* line 113: `if attempt < 2`: the attempt after which a failure is raised
LastAttempt == 2

\* config.STORES: the ids of the registered stores, in list order
STORES == <<"trendyol", "hepsiburada", "n11", "amazon", "teknosa", "mediamarkt", "generic">>

GENERIC_STORE_ID == "generic"

\* self.user_agents: the five browser signatures, by a short name each
user_agents == {"chrome-win", "safari-mac", "edge-win", "firefox-win", "chrome-ios"}

\* a lookup that accepts every id
AnyStoreRegistered(id) == TRUE

\* next((s for s in STORES if s['id'] == store_id), None) is not None
StoreRegistered(id) == \E i \in 1..Len(STORES) : STORES[i] = id

-----------------------------------------------------------------------------
(* URLs: urllib.parse.urlparse *)

\* the text up to (not including) the first character that is in `stops`
RECURSIVE UpTo(_, _)
UpTo(s, stops) ==
    IF s = "" \/ InChars(Ch(s, 1), stops) THEN "" ELSE Ch(s, 1) \o UpTo(Drop(s, 1), stops)

\* urlparse(url): scheme, netloc and path of an absolute URL `scheme://netloc/path?query#fragment`
UrlParse(u) ==
    With(Find(u, "://"), LAMBDA k :
        IF k = 0 THEN [scheme |-> "", netloc |-> "", path |-> UpTo(u, "?#")]
        ELSE With(UpTo(Drop(u, k + 2), "/?#"), LAMBDA netloc :
                [scheme |-> Take(u, k - 1), netloc |-> netloc,
                 path |-> UpTo(Drop(u, k + 2 + Len(netloc)), "?#")]))

\* urlparse(url).path.split('/')
PathParts(u) == Split(UrlParse(u).path, "/")

\* f"{parsed_url.scheme}://{parsed_url.netloc}" followed by "/"
Referer(u) == With(UrlParse(u), LAMBDA parsed_url : parsed_url.scheme \o "://" \o parsed_url.netloc \o "/")

\* seq[-1]
Last(seq) == seq[Len(seq)]

\* url.split('/')[-1]
LastField(u) == Last(Split(u, "/"))

-----------------------------------------------------------------------------
(* JSON values, as json.loads returns them *)

JNull == [k |-> "null"]

JStr(s) == [k |-> "str", s |-> s]

\* a number, by its decimal text
JNum(s) == [k |-> "num", s |-> s]

JList(items) == [k |-> "list", items |-> items]

\* a dict, as a function from its keys
JDict(f) == [k |-> "dict", f |-> f]

IsDict(v) == v.k = "dict"

IsList(v) == v.k = "list"

\* d.get(key) of a dict
Get(d, key) == IF key \in DOMAIN d.f THEN d.f[key] ELSE JNull

\* the value of a key that may be missing, of a value that may be no dict
Absent == [k |-> "absent"]

Lookup(d, key) == IF d.k = "dict" /\ key \in DOMAIN d.f THEN d.f[key] ELSE Absent

\* key in d, for a dict d
HasKey(d, key) == key \in DOMAIN d.f

\* v == text
IsStr(v, text) == v.k = "str" /\ v.s = text

\* a float that is not 0.0
NonZero(f) == f # None /\ Val(f)[1] # 0

\* bool(v)
Truthy(v) ==
    CASE v.k = "null" -> FALSE
      [] v.k = "str"  -> v.s # ""
      [] v.k = "num"  -> NonZero(Float(v.s))
      [] v.k = "list" -> v.items # <<>>
      [] v.k = "dict" -> DOMAIN v.f # {}
      [] OTHER        -> TRUE

\* float(v): Some(value); None where Python raises ValueError or TypeError
JFloat(v) == IF v.k = "str" \/ v.k = "num" THEN Float(v.s) ELSE None

\* str(v) of a string or a number
JText(v) == IF v.k = "str" \/ v.k = "num" THEN v.s ELSE "None"

-----------------------------------------------------------------------------
(* The document tree (BeautifulSoup).  A document is the sequence of its   *)
(* elements in document order; an element has a tag name, its attributes   *)
(* (a function from attribute names), its text (the text of its subtree),  *)
(* its parent's index (0 at top level) and, for a script element, what     *)
(* json.loads makes of script.string:                                      *)
(*   [k |-> "nostring"]  script.string is None (json.loads: TypeError)     *)
(*   [k |-> "invalid"]   not JSON (json.loads: JSONDecodeError)            *)
(*   a JSON value otherwise.                                               *)

NoAttrs == <<>>

El(tag, attrs, text, parent) ==
    [tag |-> tag, attrs |-> attrs, text |-> text, parent |-> parent, json |-> JNull]

LdScript(json) ==
    [tag |-> "script", attrs |-> [type |-> "application/ld+json"], text |-> "",
     parent |-> 0, json |-> json]

HasAttr(e, a) == a \in DOMAIN e.attrs

\* [a="v"]
AttrIs(e, a, v) == HasAttr(e, a) /\ e.attrs[a] = v

\* [a*="sub" i]
AttrContainsI(e, a, sub) == HasAttr(e, a) /\ Contains(Lower(e.attrs[a]), Lower(sub))

\* the class tokens of an element
RECURSIVE Members(_)
Members(seq) == IF seq = <<>> THEN {} ELSE {Head(seq)} \cup Members(Tail(seq))

\* .c
HasClass(e, c) == HasAttr(e, "class") /\ c \in Members(Split(e.attrs["class"], " "))

\* #id
HasId(e, id) == AttrIs(e, "id", id)

\* the indices of the ancestors of element i of doc
RECURSIVE Ancestors(_, _)
Ancestors(doc, i) ==
    IF doc[i].parent = 0 THEN {} ELSE {doc[i].parent} \cup Ancestors(doc, doc[i].parent)

\* some ancestor of element i of doc satisfies P
HasAncestor(doc, i, P(_)) == \E p \in Ancestors(doc, i) : P(doc[p])

\* the least of a set of indices, 0 if it is empty
First(hits) == IF hits = {} THEN 0 ELSE CHOOSE i \in hits : \A j \in hits : i <= j

\* the greatest of a set of indices, 0 if it is empty
Latest(hits) == IF hits = {} THEN 0 ELSE CHOOSE i \in hits : \A j \in hits : i >= j

\* soup.select_one(selector): the index of the first element, in document
\* order, that M accepts; 0 for None
SelectOne(doc, M(_, _)) == First({i \in 1..Len(doc) : M(doc, i)})

\* a or b, for two select_one results (an element is always truthy)
Or(a, b) == IF a # 0 THEN a ELSE b

\* select_one('tag.c')
ByTagClass(doc, tag, c) == SelectOne(doc, LAMBDA d, i : d[i].tag = tag /\ HasClass(d[i], c))

\* select_one('.c')
ByClass(doc, c) == SelectOne(doc, LAMBDA d, i : HasClass(d[i], c))

\* select_one('#id')
ById(doc, id) == SelectOne(doc, LAMBDA d, i : HasId(d[i], id))

\* select_one('tag')
ByTag(doc, tag) == SelectOne(doc, LAMBDA d, i : d[i].tag = tag)

\* select_one('[a="v"]')
ByAttr(doc, a, v) == SelectOne(doc, LAMBDA d, i : AttrIs(d[i], a, v))

\* select_one('tag[a="v"]')
ByTagAttr(doc, tag, a, v) == SelectOne(doc, LAMBDA d, i : d[i].tag = tag /\ AttrIs(d[i], a, v))

\* select_one('.outer .inner')
ByClassIn(doc, outer, inner) ==
    SelectOne(doc, LAMBDA d, i : HasClass(d[i], inner)
                                 /\ HasAncestor(d, i, LAMBDA a : HasClass(a, outer)))

\* select_one('[a*="sub" i]')
ByAttrContainsI(doc, a, sub) == SelectOne(doc, LAMBDA d, i : AttrContainsI(d[i], a, sub))

\* tag.get(a): Some(text) or None
GetAttr(e, a) == IF HasAttr(e, a) THEN Some(e.attrs[a]) ELSE None

\* soup.find_all('script', type='application/ld+json'): the indices, in order
RECURSIVE LdScriptsFrom(_, _)
LdScriptsFrom(doc, i) ==
    IF i > Len(doc) THEN <<>>
    ELSE (IF doc[i].tag = "script" /\ AttrIs(doc[i], "type", "application/ld+json")
          THEN <<i>> ELSE <<>>) \o LdScriptsFrom(doc, i + 1)

LdScripts(doc) == LdScriptsFrom(doc, 1)

\* response.text: the markup as text, here every tag name, attribute value and text of the document
RECURSIVE AttrText(_, _)
AttrText(e, names) ==
    IF names = {} THEN ""
    ELSE With(CHOOSE a \in names : TRUE, LAMBDA a :
            " " \o e.attrs[a] \o AttrText(e, names \ {a}))

RECURSIVE MarkupFrom(_, _)
MarkupFrom(doc, i) ==
    IF i > Len(doc) THEN ""
    ELSE "<" \o doc[i].tag \o AttrText(doc[i], DOMAIN doc[i].attrs) \o ">"
         \o (IF \E j \in 1..Len(doc) : doc[j].parent = i THEN "" ELSE doc[i].text)
         \o MarkupFrom(doc, i + 1)

Markup(doc) == MarkupFrom(doc, 1)

-----------------------------------------------------------------------------
(* Per-site extraction routines.  Each returns the dict                    *)
(* {'title': ..., 'price': ..., 'in_stock': ...} as a record whose title   *)
(* and price are option values.                                            *)

Product(title, price, in_stock) == [title |-> title, price |-> price, in_stock |-> in_stock]

\* `if tag: result['title'] = tag.text.strip()`, from the initial None
TitleOf(doc, tag) == IF tag # 0 THEN Some(Strip(doc[tag].text)) ELSE None

\* `if tag: result['price'] = self._clean_price(tag.text)`, from the initial None
PriceOf(doc, tag) == IF tag # 0 THEN CleanPrice(doc[tag].text) ELSE None

\* sold_out is None and add_to_cart is not None
NotSoldOut(sold_out, add_to_cart) == sold_out = 0 /\ add_to_cart # 0

\* ProductScraper._scrape_trendyol
ScrapeTrendyol(doc, u) ==
    Product(TitleOf(doc, Or(ByTagClass(doc, "h1", "pr-new-br"), ByTagClass(doc, "h1", "product-name"))),
            PriceOf(doc, Or(ByClass(doc, "prc-dsc"), ByClass(doc, "product-price"))),
            NotSoldOut(Or(ByClass(doc, "pr-in-cn"), ByClass(doc, "soldOutProductCt")),
                       Or(ByClass(doc, "add-to-basket"), ByClass(doc, "add-to-cart"))))

\* line 274: (sold_out is None or 'tükendi' not in sold_out.text.lower()) and add_to_cart is not None
\* a stock test that takes the presence of a sold-out element as out of stock
SoldOutByPresence(doc, sold_out, add_to_cart) == sold_out = 0 /\ add_to_cart # 0

HepsiburadaStock(doc, sold_out, add_to_cart) ==
    (sold_out = 0 \/ ~Contains(Lower(doc[sold_out].text), "tükendi")) /\ add_to_cart # 0

\* ProductScraper._scrape_hepsiburada
ScrapeHepsiburada(doc, u) ==
    Product(TitleOf(doc, Or(ByTagClass(doc, "h1", "product-name"),
                            ByTagAttr(doc, "h1", "data-bind", "markupText: product.name"))),
            PriceOf(doc, Or(ByAttr(doc, "data-bind", "markupText: product.price.currentPrice"),
                            ByClass(doc, "product-price"))),
            HepsiburadaStock(doc,
                Or(ByClass(doc, "product-status-text"), ByClass(doc, "out-of-stock-text")),
                Or(ById(doc, "addToCart"), ByClass(doc, "add-to-cart"))))

\* lines 303-306: price_tag.select_one('ins') or price_tag, normalized
N11Price(doc, price_tag) ==
    IF price_tag = 0 THEN None
    ELSE CleanPrice(doc[Or(SelectOne(doc, LAMBDA d, i : d[i].tag = "ins" /\ price_tag \in Ancestors(d, i)),
                           price_tag)].text)

\* ProductScraper._scrape_n11
ScrapeN11(doc, u) ==
    Product(TitleOf(doc, Or(ByTagClass(doc, "h1", "proName"), ByTagClass(doc, "h1", "productName"))),
            N11Price(doc, Or(ByClass(doc, "newPrice"), ByClass(doc, "price"))),
            NotSoldOut(Or(ByClass(doc, "unf-p-summary-out-of-stock"), ByClass(doc, "outOfStock")),
                       Or(ById(doc, "addBasket"), ByClass(doc, "btnAddBasket"))))

\* lines 346-351
AmazonStock(doc, availability, add_to_cart) ==
    IF availability # 0
    THEN With(Lower(doc[availability].text), LAMBDA text :
            Contains(text, "stokta") \/ Contains(text, "in stock"))
    ELSE add_to_cart # 0

\* ProductScraper._scrape_amazon
ScrapeAmazon(doc, u) ==
    Product(TitleOf(doc, ById(doc, "productTitle")),
            PriceOf(doc, Or(ByClassIn(doc, "a-price", "a-offscreen"), ById(doc, "priceblock_ourprice"))),
            AmazonStock(doc, ById(doc, "availability"), ById(doc, "add-to-cart-button")))

-----------------------------------------------------------------------------
(* ProductScraper._scrape_pandora, the routine store id teknosa is         *)
(* dispatched to.  Its body runs inside one try/except Exception: an       *)
(* exception ends the routine, which returns the result as filled so far.  *)

IsLetter(c) == InChars(c, LowerChars) \/ InChars(c, UpperChars)

\* str.title(): a letter is upper-cased after a non-letter, lower-cased after a letter
RECURSIVE TitleFrom(_, _)
TitleFrom(s, after_letter) ==
    IF s = "" THEN ""
    ELSE (IF after_letter THEN LowerCh(Ch(s, 1)) ELSE UpperCh(Ch(s, 1)))
         \o TitleFrom(Drop(s, 1), IsLetter(Ch(s, 1)))

TitleCase(s) == TitleFrom(s, FALSE)

\* part.replace('-', ' ').replace('_', ' ')
Spaced(part) == Replace(Replace(part, "-", " "), "_", " ")

\* the first index i >= 2 of parts with parts[i] ending in ".html"; 0 if none
FirstHtmlPart(parts) == First({i \in 2..Len(parts) : EndsWith(parts[i], ".html")})

\* lines 382-386: product name and product code of part i
PandoraNameAndCode(path_parts, i) ==
    IF i = 0 THEN None
    ELSE Some(TitleCase(Spaced(path_parts[i - 1])) \o " " \o Split(path_parts[i], ".")[1])

\* lines 373-387: the title composed from the URL
PandoraUrlTitle(u) ==
    With(PathParts(u), LAMBDA path_parts : PandoraNameAndCode(path_parts, FirstHtmlPart(path_parts)))

\* the first element of a list of select_one results that is not None; 0 if none
RECURSIVE FirstFound(_)
FirstFound(candidates) ==
    IF candidates = <<>> THEN 0
    ELSE IF Head(candidates) # 0 THEN Head(candidates) ELSE FirstFound(Tail(candidates))

\* select_one('outer_tag.c inner_tag')
ByTagIn(doc, outer_tag, c, inner_tag) ==
    SelectOne(doc, LAMBDA d, i : d[i].tag = inner_tag
                                 /\ HasAncestor(d, i, LAMBDA a : a.tag = outer_tag /\ HasClass(a, c)))

\* lines 401-407: the candidate's text; a meta element gives its content attribute
PandoraTitleOf(doc, u, e) ==
    IF e = 0 THEN PandoraUrlTitle(u)
    ELSE IF doc[e].tag = "meta" THEN GetAttr(doc[e], "content")
    ELSE Some(Strip(doc[e].text))

\* lines 373-407
PandoraTitle(doc, u) ==
    PandoraTitleOf(doc, u, FirstFound(<<ByTagClass(doc, "h1", "product-name"),
                                        ByTagClass(doc, "h1", "product-title"),
                                        ByTagClass(doc, "h1", "pdp-title"),
                                        ByTagAttr(doc, "h1", "itemprop", "name"),
                                        ByTagIn(doc, "div", "product-title", "h1"),
                                        ByTagAttr(doc, "meta", "property", "og:title"),
                                        ByTagAttr(doc, "meta", "name", "title")>>))

\* `if price:` then float(price), and the normalizer on str(price) where float raises
FloatOrClean(price) ==
    IF ~Truthy(price) THEN None ELSE OrElse(JFloat(price), CleanPrice(JText(price)))

\* lines 414-417: offers['price'] of a Product dict with a dict of offers; else null
PandoraLdOfferPrice(data) ==
    IF /\ data.k = "dict"
       /\ IsStr(Get(data, "@type"), "Product")
       /\ IsDict(Get(data, "offers"))
    THEN Get(Get(data, "offers"), "price")
    ELSE JNull

\* lines 411-428: the first JSON-LD loop.  [exc, price]: exc when an exception
\* other than JSONDecodeError and AttributeError leaves the loop
RECURSIVE PandoraLdPrice(_, _)
PandoraLdPrice(doc, scripts) ==
    IF scripts = <<>> THEN [exc |-> FALSE, price |-> None]
    ELSE With(doc[Head(scripts)].json, LAMBDA data :
         CASE data.k = "nostring" -> [exc |-> TRUE, price |-> None]
           [] data.k = "invalid"  -> [exc |-> FALSE, price |-> None]
           [] data.k \in {"null", "num"} -> [exc |-> TRUE, price |-> None]
           [] OTHER ->
                With(FloatOrClean(PandoraLdOfferPrice(data)), LAMBDA value :
                    IF value # None THEN [exc |-> FALSE, price |-> value]
                    ELSE PandoraLdPrice(doc, Tail(scripts))))

\* lines 455-456: currency signs removed, '.' removed and ',' turned into '.'
PandoraPreClean(price_text) ==
    Strip(Replace(Replace(Replace(Replace(Replace(price_text, "TL", ""), "₺", ""), "TRY", ""),
                          ".", ""), ",", "."))

\* lines 446-459: one price candidate
PandoraPriceText(e) ==
    With(IF e.tag = "meta" THEN GetAttr(e, "content") ELSE Some(Strip(e.text)), LAMBDA price_text :
        IF price_text = None THEN None ELSE CleanPrice(PandoraPreClean(Val(price_text))))

\* the price of the first candidate, in order, that yields one
RECURSIVE PandoraDomPrice(_, _)
PandoraDomPrice(doc, candidates) ==
    IF candidates = <<>> THEN None
    ELSE OrElse(IF Head(candidates) # 0 THEN PandoraPriceText(doc[Head(candidates)]) ELSE None,
                PandoraDomPrice(doc, Tail(candidates)))

\* lines 432-444
PandoraPriceCandidates(doc) ==
    <<ByTagClass(doc, "span", "price-sales"),
      ByTagClass(doc, "span", "current-price"),
      ByTagClass(doc, "span", "product-price"),
      ByTagIn(doc, "div", "product-price", "span"),
      ByAttr(doc, "itemprop", "price"),
      ByTagClass(doc, "p", "price"),
      ByClass(doc, "product-price"),
      ByClassIn(doc, "price-container", "price"),
      ByTagAttr(doc, "meta", "property", "product:price:amount"),
      ByTagAttr(doc, "meta", "property", "og:price:amount")>>

PandoraTypes == {"Product", "JewelryStore", "Offer"}

\* '@type' in v and v['@type'] in ['Product', 'JewelryStore', 'Offer'], for a dict v
PandoraTyped(v) == \E t \in PandoraTypes : IsStr(Get(v, "@type"), t)

\* the first item of a @graph list that is a typed dict; JNull if there is none, or
\* if `'@type' in item` raises TypeError before one (an item that is null or a number)
RECURSIVE FirstTyped(_)
FirstTyped(items) ==
    IF items = <<>> THEN JNull
    ELSE IF Head(items).k \in {"null", "num"} THEN JNull
    ELSE IF IsDict(Head(items)) /\ PandoraTyped(Head(items)) THEN Head(items)
    ELSE FirstTyped(Tail(items))

\* lines 469-473: the typed item of data['@graph'], JNull if none
PandoraGraphItem(data) ==
    IF data.k = "dict" /\ IsList(Get(data, "@graph")) THEN FirstTyped(Get(data, "@graph").items)
    ELSE JNull

\* lines 462-475: the second JSON-LD loop; json_ld, from `cur`
RECURSIVE PandoraJsonLd(_, _, _)
PandoraJsonLd(doc, scripts, cur) ==
    IF scripts = <<>> THEN cur
    ELSE With(doc[Head(scripts)].json, LAMBDA data :
         IF data.k = "dict" /\ PandoraTyped(data) THEN data
         ELSE With(PandoraGraphItem(data), LAMBDA item :
                PandoraJsonLd(doc, Tail(scripts), IF item # JNull THEN item ELSE cur)))

\* the offer the routine reads: offers itself if a dict, offers[0] if a non-empty list
FirstOffer(offers) ==
    IF IsDict(offers) THEN offers
    ELSE IF IsList(offers) /\ offers.items # <<>> /\ IsDict(offers.items[1]) THEN offers.items[1]
    ELSE JNull

\* `if json_ld:` and 'offers' in json_ld: the offer read, JNull if none
PandoraOffer(json_ld) == IF IsDict(json_ld) /\ Truthy(json_ld) THEN FirstOffer(Get(json_ld, "offers")) ELSE JNull

\* `not result['price']`
NoPrice(price) == price = None \/ Val(price)[1] = 0

\* lines 497-509: an add-to-cart button that is not disabled
PandoraButton(doc) ==
    \E b \in {ByTagClass(doc, "button", "add-to-cart"), ByTagClass(doc, "button", "add-to-bag"),
              ByTagClass(doc, "button", "add-to-basket"), ByTagClass(doc, "button", "pdp-button"),
              ByTagAttr(doc, "button", "data-button-action", "add-to-cart")} :
        b # 0 /\ (~HasAttr(doc[b], "disabled") \/ doc[b].attrs["disabled"] = "")

OutOfStockTerms == {"sold out", "out of stock", "tükendi", "stokta yok"}

\* lines 511-524: an availability element naming an out-of-stock term
PandoraSoldOut(doc) ==
    \E e \in {ByClass(doc, "product-availability"), ByClass(doc, "stock-availability"),
              ByClass(doc, "pdp-availability"), ByClass(doc, "availability"),
              ByClass(doc, "stock-status")} :
        e # 0 /\ \E term \in OutOfStockTerms : Contains(Lower(doc[e].text), term)

\* lines 495-528: buttons, then out-of-stock messages, then the price fallback
PandoraFinalStock(doc, price, ld_stock) ==
    \/ ld_stock
    \/ (~PandoraSoldOut(doc) /\ PandoraButton(doc))
    \/ price # None

\* lines 487-492: 'InStock' in offers['availability'] raises TypeError on a value
\* that is no text; the routine then returns with in_stock still False
PandoraStock(doc, title, price, availability) ==
    IF availability.k \notin {"absent", "str"} THEN Product(title, price, FALSE)
    ELSE Product(title, price,
                 PandoraFinalStock(doc, price, availability.k = "str" /\ Contains(availability.s, "InStock")))

\* lines 477-492: float(offers['price']) where the price is still unset; it raises
\* on text that is no number, and the routine returns the result as it is
PandoraWithOffer(doc, title, price1, offer) ==
    With(NoPrice(price1) /\ offer # JNull /\ HasKey(offer, "price"), LAMBDA reads :
    With(IF reads THEN JFloat(Get(offer, "price")) ELSE price1, LAMBDA price2 :
        IF reads /\ price2 = None THEN Product(title, price1, FALSE)
        ELSE PandoraStock(doc, title, price2, Lookup(offer, "availability"))))

\* lines 409-459
PandoraAfterLd(doc, title, ld) ==
    IF ld.exc THEN Product(title, None, FALSE)
    ELSE PandoraWithOffer(doc, title,
                          OrElse(ld.price, PandoraDomPrice(doc, PandoraPriceCandidates(doc))),
                          PandoraOffer(PandoraJsonLd(doc, LdScripts(doc), JNull)))

ScrapePandora(doc, u) == PandoraAfterLd(doc, PandoraTitle(doc, u), PandoraLdPrice(doc, LdScripts(doc)))

-----------------------------------------------------------------------------
(* ProductScraper._scrape_generic.  An exception that leaves the routine   *)
(* is reported as exc; get_product_info catches it.                        *)

IsProduct(v) == IsDict(v) /\ IsStr(Get(v, "@type"), "Product")

\* any(item.get('@type') == 'Product' for item in graph): "yes", "no", or
\* "raise" when an item that is no dict comes before a Product (AttributeError)
RECURSIVE AnyProduct(_)
AnyProduct(items) ==
    IF items = <<>> THEN "no"
    ELSE IF ~IsDict(Head(items)) THEN "raise"
    ELSE IF IsProduct(Head(items)) THEN "yes"
    ELSE AnyProduct(Tail(items))

\* the first item of a list that is a Product dict; JNull if none
RECURSIVE FirstProduct(_)
FirstProduct(items) ==
    IF items = <<>> THEN JNull
    ELSE IF IsProduct(Head(items)) THEN Head(items)
    ELSE FirstProduct(Tail(items))

\* lines 682-684: the test of a dict
IsProductData(json_data) ==
    \/ IsProduct(json_data)
    \/ (IsList(Get(json_data, "@graph")) /\ AnyProduct(Get(json_data, "@graph").items) = "yes")

\* lines 676-693: the JSON-LD loop.  [exc, data]: json_ld_data, from `cur`; exc when
\* json.loads raises TypeError, which the loop's except clause does not name
RECURSIVE GenericJsonLd(_, _, _)
GenericJsonLd(doc, scripts, cur) ==
    IF scripts = <<>> THEN [exc |-> FALSE, data |-> cur]
    ELSE With(doc[Head(scripts)].json, LAMBDA json_data :
         CASE json_data.k = "nostring" -> [exc |-> TRUE, data |-> cur]
           [] json_data.k = "dict" /\ IsProductData(json_data) -> [exc |-> FALSE, data |-> json_data]
           [] json_data.k = "list" /\ FirstProduct(json_data.items) # JNull ->
                GenericJsonLd(doc, Tail(scripts), FirstProduct(json_data.items))
           [] OTHER -> GenericJsonLd(doc, Tail(scripts), cur))

\* lines 699-704: the Product entity of a @graph container
FromGraph(json_ld_data) ==
    IF IsList(Get(json_ld_data, "@graph")) /\ FirstProduct(Get(json_ld_data, "@graph").items) # JNull
    THEN FirstProduct(Get(json_ld_data, "@graph").items)
    ELSE json_ld_data

\* lines 707-708
LdTitle(json_ld_data) ==
    IF Truthy(Get(json_ld_data, "name")) THEN Some(Get(json_ld_data, "name").s) ELSE None

\* lines 714-720, 732-737
LdPrice(offer) == IF offer = JNull THEN None ELSE FloatOrClean(Get(offer, "price"))

\* 'instock' in availability or 'in stock' in availability
SaysInStock(availability) == Contains(availability, "instock") \/ Contains(availability, "in stock")

\* lines 723-725, 739-741: offers.get('availability', '').lower(); Some(in_stock) when
\* it is non-empty text, None when it leaves in_stock alone
LdStock(offer) ==
    IF Lookup(offer, "availability").k # "str" \/ Lookup(offer, "availability").s = "" THEN None
    ELSE Some(SaysInStock(Lower(Lookup(offer, "availability").s)))

\* lines 723, 739: .lower() raises AttributeError on an availability that is no text
LdRaises(offer) == Lookup(offer, "availability").k \notin {"absent", "str"}

\* `candidate and candidate.text.strip()`: the first such candidate's stripped text
RECURSIVE FirstText(_, _)
FirstText(doc, candidates) ==
    IF candidates = <<>> THEN None
    ELSE IF Head(candidates) # 0 /\ Strip(doc[Head(candidates)].text) # ""
    THEN Some(Strip(doc[Head(candidates)].text))
    ELSE FirstText(doc, Tail(candidates))

\* lines 746-757
GenericDomTitle(doc) ==
    FirstText(doc, <<ByTag(doc, "h1"),
                     ByAttrContainsI(doc, "class", "title"),
                     ByAttrContainsI(doc, "class", "product-name"),
                     ByAttrContainsI(doc, "class", "product"),
                     ByTag(doc, "title")>>)

\* the last element of parts, scanning backwards, that P accepts; 0 if none
LastPart(parts, P(_)) == Latest({i \in 1..Len(parts) : P(parts[i])})

\* part.replace('-', ' ').replace('_', ' ').capitalize()
Humanize(part) == Capitalize(Spaced(part))

\* lines 768-784: the pandora.net branch: the part before the first .html part,
\* else "Pandora" and the product code of the last .html part
PandoraNetTitle(path_parts, i, j) ==
    IF i # 0 /\ path_parts[i - 1] # "" THEN Some(Humanize(path_parts[i - 1]))
    ELSE IF j # 0 THEN Some("Pandora " \o Split(path_parts[j], ".")[1])
    ELSE None

\* lines 787-790: the last part that is not empty and not a bare extension
LastMeaningful(path_parts, i) == IF i = 0 THEN None ELSE Some(Humanize(path_parts[i]))

\* lines 760-790: the title derived from the URL; None when no part qualifies
GenericUrlTitle(u) ==
    With(PathParts(u), LAMBDA path_parts :
        IF Contains(Lower(u), "pandora.net")
        THEN PandoraNetTitle(path_parts, FirstHtmlPart(path_parts),
                             LastPart(path_parts, LAMBDA part : EndsWith(part, ".html")))
        ELSE LastMeaningful(path_parts,
                            LastPart(path_parts, LAMBDA part : part \notin {"", ".html", ".htm"})))

\* tag.get('content') of a select_one result; "" when there is no element or no attribute
ContentOf(doc, tag) == IF tag # 0 /\ HasAttr(doc[tag], "content") THEN doc[tag].attrs["content"] ELSE ""

\* lines 795-807: `tag and tag.get('content')`, normalized; the first that parses
RECURSIVE MetaPrice(_, _)
MetaPrice(doc, tags) ==
    IF tags = <<>> THEN None
    ELSE OrElse(CleanPrice(ContentOf(doc, Head(tags))), MetaPrice(doc, Tail(tags)))

\* lines 821-824: the content attribute if non-empty, else the text
PriceText(doc, c) ==
    IF c = 0 THEN "" ELSE IF ContentOf(doc, c) # "" THEN ContentOf(doc, c) ELSE doc[c].text

\* lines 818-831: the first candidate whose text parses
RECURSIVE DomPrice(_, _)
DomPrice(doc, candidates) ==
    IF candidates = <<>> THEN None
    ELSE OrElse(CleanPrice(PriceText(doc, Head(candidates))), DomPrice(doc, Tail(candidates)))

\* lines 793-831
GenericDomPrice(doc) ==
    OrElse(MetaPrice(doc, <<ByTagAttr(doc, "meta", "property", "product:price:amount"),
                            ByTagAttr(doc, "meta", "property", "og:price:amount"),
                            ByTagAttr(doc, "meta", "itemprop", "price")>>),
           DomPrice(doc, <<SelectOne(doc, LAMBDA d, i : AttrContainsI(d[i], "class", "price")
                                                        /\ ~AttrContainsI(d[i], "class", "old")
                                                        /\ ~AttrContainsI(d[i], "class", "regular")),
                           ByAttrContainsI(doc, "id", "price"),
                           SelectOne(doc, LAMBDA d, i : AttrContainsI(d[i], "class", "current")
                                                        /\ AttrContainsI(d[i], "class", "price")),
                           ByAttr(doc, "itemprop", "price")>>))

\* soup.get_text(): the text of the document, script bodies left out
RECURSIVE TextFrom(_, _)
TextFrom(doc, i) ==
    IF i > Len(doc) THEN ""
    ELSE (IF doc[i].parent = 0 /\ doc[i].tag # "script" THEN doc[i].text \o " " ELSE "")
         \o TextFrom(doc, i + 1)

GetText(doc) == TextFrom(doc, 1)

\* (the module's strings are Latin-1: dotless i is written i, s-cedilla s)
out_of_stock_indicators ==
    {"out of stock", "tükendi", "sold out", "stokta yok", "stokta bulunmamaktadir",
     "ürün geçici olarak temin edilemiyor", "su an için temin edilemiyor"}

\* lines 846-853: an out-of-stock phrase in the page text or in the availability meta
OutOfStock(page_text, availability_text) ==
    \/ \E indicator \in out_of_stock_indicators : Contains(page_text, indicator)
    \/ Contains(availability_text, "outofstock")
    \/ Contains(availability_text, "out of stock")

\* lines 856-873
HasAddToCart(doc) ==
    \/ \E sub \in {"add-to-cart", "addtocart", "add-to-basket", "addtobasket"} :
          ByAttrContainsI(doc, "class", sub) # 0
    \/ \E sub \in {"add-to-cart", "addtocart"} : ByAttrContainsI(doc, "id", sub) # 0
    \/ \E i \in 1..Len(doc) : doc[i].tag \in {"button", "a"} /\ Contains(Lower(doc[i].text), "sepete ekle")

\* lines 835-884: the stock heuristics over the page
GenericDomStock(doc, price) ==
    IF OutOfStock(Lower(GetText(doc)),
                  Lower(ContentOf(doc, Or(ByTagAttr(doc, "meta", "property", "product:availability"),
                                          ByTagAttr(doc, "meta", "itemprop", "availability")))))
    THEN FALSE
    ELSE IF HasAddToCart(doc) THEN TRUE
    ELSE price # None

\* ' '.join(s.split()): runs of whitespace collapsed to one space, ends trimmed
RECURSIVE Collapse(_)
Collapse(s) ==
    With(LStrip(s), LAMBDA t :
        IF t = "" THEN ""
        ELSE With(UpTo(t, " \n\t"), LAMBDA word :
                IF LStrip(Drop(t, Len(word))) = "" THEN word
                ELSE word \o " " \o Collapse(Drop(t, Len(word)))))

\* lines 892-893
Truncate(t) == IF Len(t) > 200 THEN Take(t, 197) \o "..." ELSE t

\* lines 887-893
CleanTitle(title) ==
    IF title = None \/ Val(title) = "" THEN title ELSE Some(Truncate(Collapse(Val(title))))

\* lines 834-895: the stock heuristics run only where in_stock is unset
GenericFinish(doc, title, price, in_stock) ==
    Product(CleanTitle(title), price,
            IF in_stock = None THEN GenericDomStock(doc, price) ELSE Val(in_stock))

\* an extraction that asks the document first and structured data last
DomFirstFill(doc, u, ld_title, offer) ==
    GenericFinish(doc,
                  OrElse(GenericDomTitle(doc), OrElse(ld_title, GenericUrlTitle(u))),
                  OrElse(GenericDomPrice(doc), LdPrice(offer)),
                  OrElse(LdStock(offer), Some(FALSE)))

\* lines 669-673, 706-831: the result starts as (None, None, False); structured data
\* fills it first, the document and the URL fill the title and price still unset
GenericFill(doc, u, ld_title, offer) ==
    GenericFinish(doc,
                  OrElse(ld_title, OrElse(GenericDomTitle(doc), GenericUrlTitle(u))),
                  OrElse(LdPrice(offer), GenericDomPrice(doc)),
                  OrElse(LdStock(offer), Some(FALSE)))

Raised == [exc |-> TRUE, r |-> Product(None, None, FALSE)]

\* lines 706-741: name and the offer of the Product entity
GenericWithOffer(doc, u, ld_title, offer) ==
    IF LdRaises(offer) THEN Raised
    ELSE [exc |-> FALSE, r |-> GenericFill(doc, u, ld_title, offer)]

\* lines 696-741
GenericFromLd(doc, u, json_ld_data) ==
    IF Truthy(json_ld_data)
    THEN With(FromGraph(json_ld_data), LAMBDA product :
            GenericWithOffer(doc, u, LdTitle(product), FirstOffer(Get(product, "offers"))))
    ELSE GenericWithOffer(doc, u, None, JNull)

\* lines 675-695: [exc, r]: exc when an exception leaves the routine, else its result r
GenericAfterLoop(doc, u, found) ==
    IF found.exc THEN Raised ELSE GenericFromLd(doc, u, found.data)

ScrapeGeneric(doc, u) == GenericAfterLoop(doc, u, GenericJsonLd(doc, LdScripts(doc), JNull))

-----------------------------------------------------------------------------
(* The pages the modelled servers answer with, by name *)

ProductLd(name, price, availability) ==
    JDict(("@type" :> JStr("Product")) @@ ("name" :> JStr(name))
          @@ ("offers" :> JDict(("price" :> price) @@ ("availability" :> JStr(availability)))))

\* the elements of the page "shop"
ShopElements ==
    <<El("h1", [class |-> "product-name"], " Phone Case ", 0),
      El("span", [class |-> "product-price"], "1.234,56 TL", 0),
      El("button", [class |-> "btn add-to-cart"], "Sepete Ekle", 0)>>

\* the pages the modelled servers answer with
PageIds == {"empty", "ld", "captcha", "shop"}

\* the pages the store routines are run on
AllPages == PageIds \cup {"shop_invalid", "shop_nostring", "ld_soldout", "short_h1",
                        "two_ld", "array_ld", "empty_first", "ld_shop", "short_ld",
                        "hb_soldout", "hb_status", "amazon_out"}

Document(page) ==
    CASE page = "empty"   -> <<>>
      [] page = "ld"      -> <<LdScript(ProductLd("Blue Mug", JStr("199.90"), "https://schema.org/InStock"))>>
      [] page = "captcha" -> <<El("p", NoAttrs, "Please complete the captcha", 0)>>
      [] page = "shop"    -> ShopElements
      [] page = "shop_invalid"  -> ShopElements \o <<LdScript([k |-> "invalid"])>>
      [] page = "shop_nostring" -> ShopElements \o <<LdScript([k |-> "nostring"])>>
      [] page = "ld_soldout" -> <<LdScript(ProductLd("Blue Mug", JStr("199.90"), "https://schema.org/InStock")),
                                  El("p", [class |-> "notice"], "Sold out", 0)>>
      [] page = "short_h1"   -> <<El("title", NoAttrs, " Blue   Mug \n Shop ", 0),
                                  El("h1", NoAttrs, "OK", 0)>>
      [] page = "two_ld"     -> <<LdScript(ProductLd("Red Mug", JStr("10"), "https://schema.org/InStock")),
                                  LdScript(ProductLd("Blue Mug", JStr("199.90"), "https://schema.org/OutOfStock"))>>
      [] page = "empty_first" -> <<El("h1", [class |-> "pr-new-br"], "", 0),
                                   El("h1", [class |-> "product-name"], " Phone Case ", 0),
                                   El("span", [class |-> "product-price"], "1.234,56 TL", 0)>>
      [] page = "ld_shop"    -> <<LdScript(ProductLd("Blue Mug", JStr("199.90"), "https://schema.org/InStock"))>>
                                  \o ShopElements
      [] page = "short_ld"   -> <<El("title", NoAttrs, "Phone Case Shop", 0),
                                  LdScript(ProductLd("TV", JStr("199.90"), "https://schema.org/InStock")),
                                  El("span", [class |-> "product-price"], "1.234,56 TL", 0)>>
      [] page = "hb_soldout" -> ShopElements \o <<El("div", [class |-> "product-status-text"], " TÜKENDI ", 0)>>
      [] page = "hb_status"  -> ShopElements \o <<El("div", [class |-> "product-status-text"], "Son 3 adet", 0)>>
      [] page = "amazon_out" -> <<El("span", [id |-> "productTitle"], " Blue Mug ", 0),
                                  El("div", [id |-> "availability"], " Stokta yok. ", 0)>>
      [] page = "array_ld"   -> <<LdScript(JList(<<ProductLd("Red Mug", JStr("10"), "https://schema.org/InStock")>>)),
                                  LdScript(ProductLd("Blue Mug", JStr("199.90"), "https://schema.org/OutOfStock"))>>

\* line 103: "captcha" in response.text.lower() or "robot" in response.text.lower()
AntiBotText(text) == Contains(text, "captcha") \/ Contains(text, "robot")

AntiBot(page) == AntiBotText(Lower(Markup(Document(page))))

\* the status codes the modelled servers answer with
StatusCodes == {200, 304, 503}

\* response.raise_for_status() raises HTTPError
HttpError(status) == status >= 400 /\ status < 600

Responses == [status : StatusCodes, body : PageIds]

\* the arguments the callers pass
StoreIds == Members(STORES) \cup {"pandora", "unknown"}

Urls == {"https://shop.example/phone-case-black/p-123.html", "https://other.example/"}

Callers == {"handler", "sweep"}

-----------------------------------------------------------------------------
(* ProductScraper.get_product_info *)

\* a fallback record without the synthesized title
UntitledFallback(u) == Product(None, None, TRUE)

\* lines 67-71
FallbackResult(u) == Product(Some("Ürün (" \o LastField(u) \o ")"), None, TRUE)

\* lines 147-151: the document's title element where the title is missing or short
LastResort(doc, r, title_tag) ==
    IF (r.title = None \/ Len(Val(r.title)) < 3) /\ title_tag # 0 /\ doc[title_tag].text # ""
    THEN [r EXCEPT !.title = Some(Strip(doc[title_tag].text))]
    ELSE r

TitleLastResort(doc, r) == LastResort(doc, r, ByTag(doc, "title"))

\* an exception that leaves get_product_info for its caller
Escapes(id, u) == Some([raised |-> TRUE])

\* lines 165-173: the outer except clause takes every exception raised inside the
\* try: the fallback record for the generic store, None for the others
OuterExcept(id, u) == IF id = GENERIC_STORE_ID THEN Some(FallbackResult(u)) ELSE None

\* lines 143-152 and 165-171: the generic store: an exception of the routine gives
\* the fallback record
GenericReturn(doc, u, scraped) ==
    IF scraped.exc
    THEN [ret |-> OuterExcept(GENERIC_STORE_ID, u), how |-> "extract_failed"]
    ELSE [ret |-> Some(TitleLastResort(doc, scraped.r)), how |-> "extracted"]

\* lines 126-155 and the handlers of lines 165-173: what the call returns for a
\* fetched page, and which return statement it is
Dispatch(id, doc, u) ==
    CASE id = "trendyol"    -> [ret |-> Some(ScrapeTrendyol(doc, u)), how |-> "extracted"]
      [] id = "hepsiburada" -> [ret |-> Some(ScrapeHepsiburada(doc, u)), how |-> "extracted"]
      [] id = "n11"         -> [ret |-> Some(ScrapeN11(doc, u)), how |-> "extracted"]
      [] id = "amazon"      -> [ret |-> Some(ScrapeAmazon(doc, u)), how |-> "extracted"]
      [] id \in {"teknosa", "pandora"} -> [ret |-> Some(ScrapePandora(doc, u)), how |-> "extracted"]
      [] id = GENERIC_STORE_ID -> GenericReturn(doc, u, ScrapeGeneric(doc, u))
      [] OTHER              -> [ret |-> None, how |-> "no_scraper"]

\* the model's finite inputs, evaluated once: the anti-bot test of each page, the
\* Referer and the fallback record of each URL, the extraction of each page
AntiBotPages == {p \in PageIds : AntiBot(p)}

RefererOf == [u \in Urls |-> Referer(u)]

FallbackOf == [u \in Urls |-> FallbackResult(u)]

Extracted == [id \in StoreIds, p \in AllPages, u \in Urls |-> Dispatch(id, Document(p), u)]

InitScraper ==
    /\ pc = [t \in Callers |-> "idle"]
    /\ store_id = [t \in Callers |-> ""]
    /\ url = [t \in Callers |-> ""]
    /\ attempt = [t \in Callers |-> 0]
    /\ response = [t \in Callers |-> None]
    /\ result = [t \in Callers |-> None]
    /\ outcome = [t \in Callers |-> ""]
    /\ headers = [ua |-> "config", referer |-> ""]
    /\ sent = [t \in Callers |-> None]
    /\ nreq = [t \in Callers |-> 0]
    /\ waits = [t \in Callers |-> <<>>]
    /\ fails = [t \in Callers |-> <<>>]
    /\ first = [t \in Callers |-> None]
    /\ last = None

Init ==
    /\ InitScraper
    /\ PriceIdle
    /\ SweepOff
    /\ ExtractOff
    /\ BotOff

\* lines 59-81: entry, the first user-agent draw and the store lookup
Call(t, id, u) ==
    /\ pc[t] = "idle"
    /\ store_id' = [store_id EXCEPT ![t] = id]
    /\ url' = [url EXCEPT ![t] = u]
    /\ \E ua \in user_agents : headers' = [headers EXCEPT !.ua = ua]
    /\ IF StoreRegistered(id)
       THEN /\ pc' = [pc EXCEPT ![t] = "attempt"]
            /\ UNCHANGED <<result, outcome>>
       ELSE /\ pc' = [pc EXCEPT ![t] = "done"]
            /\ result' = [result EXCEPT ![t] = None]
            /\ outcome' = [outcome EXCEPT ![t] = "unknown_store"]
    /\ last' = IF last # None /\ Val(last).store_id = id /\ Val(last).url = u THEN last ELSE None
    /\ UNCHANGED <<attempt, response, sent, nreq, waits, fails, first, other_vars>>

\* lines 86-97: top of one attempt: the user-agent draw and the Referer of the URL's origin
Prepare(t) ==
    /\ pc[t] = "attempt"
    /\ \E ua \in user_agents : headers' = [ua |-> ua, referer |-> RefererOf[url[t]]]
    /\ pc' = [pc EXCEPT ![t] = "get"]
    /\ UNCHANGED <<store_id, url, attempt, response, result, outcome, sent, nreq, waits,
                   fails, first, last, other_vars>>

\* line 110 raises on an error status, line 111 leaves the loop
AfterStatus(r) == IF HttpError(r.status) THEN "except" ELSE "parse"

\* the first response of a call, once it has arrived
FirstSeen(t, r) ==
    IF first[t] = None
    THEN [first EXCEPT ![t] = Some([anti |-> r.body \in AntiBotPages, n |-> nreq[t] + 1])]
    ELSE first

\* session.get with the session's headers: it raises, or a response arrives
Get1(t, challenge) ==
    /\ sent' = [sent EXCEPT ![t] = Some(headers)]
    /\ nreq' = [nreq EXCEPT ![t] = @ + 1]
    /\ \/ /\ pc' = [pc EXCEPT ![t] = "except"]
          /\ fails' = [fails EXCEPT ![t] = Append(@, "transport")]
          /\ UNCHANGED <<response, first>>
       \/ \E r \in Responses :
             /\ response' = [response EXCEPT ![t] = Some(r)]
             /\ first' = FirstSeen(t, r)
             /\ pc' = [pc EXCEPT ![t] = IF challenge /\ r.body \in AntiBotPages
                                        THEN "challenge" ELSE AfterStatus(r)]
             /\ fails' = [fails EXCEPT ![t] =
                            IF (challenge /\ r.body \in AntiBotPages) \/ ~HttpError(r.status)
                            THEN @ ELSE Append(@, "status")]
    /\ UNCHANGED <<store_id, url, attempt, result, outcome, headers, waits, last, other_vars>>

\* line 100: the request of the attempt, then the anti-bot test of line 103
Request(t) == pc[t] = "get" /\ Get1(t, TRUE)

\* lines 104-107: after the cooldown, another user-agent draw
Challenge(t) ==
    /\ pc[t] = "challenge"
    /\ \E ua \in user_agents : headers' = [headers EXCEPT !.ua = ua]
    /\ pc' = [pc EXCEPT ![t] = "get2"]
    /\ UNCHANGED <<store_id, url, attempt, response, result, outcome, sent, nreq, waits,
                   fails, first, last, other_vars>>

\* line 108: the request re-issued; its response is taken as it comes
Request2(t) == pc[t] = "get2" /\ Get1(t, FALSE)

\* a handler without the generic store's fallback
NoFallback(id, u) == None

\* lines 157-163: the fallback record for the generic store; for the others the
\* exception is raised again, into the outer except clause
InnerExcept(id, u) ==
    IF id = GENERIC_STORE_ID THEN Some(FallbackOf[u]) ELSE OuterExcept(id, u)

\* a loop that retries after the third failure too
RetriesOnceMore(a) == a < MaxAttempts

\* line 113: `if attempt < 2`: another attempt follows all but the last one
Retries(a) == a < LastAttempt

\* a backoff that does not grow
FlatBackoff(a) == 2

\* line 115: time.sleep(2 * (attempt + 1))
Backoff(a) == 2 * (a + 1)

\* lines 112-118, 157-173: a failed attempt: back off and retry, or after the last
\* attempt the fallback record for the generic store and None for every other
Except(t) ==
    /\ pc[t] = "except"
    /\ IF Retries(attempt[t])
       THEN /\ waits' = [waits EXCEPT ![t] = Append(@, Backoff(attempt[t]))]
            /\ attempt' = [attempt EXCEPT ![t] = @ + 1]
            /\ pc' = [pc EXCEPT ![t] = "attempt"]
            /\ UNCHANGED <<result, outcome>>
       ELSE /\ result' = [result EXCEPT ![t] = InnerExcept(store_id[t], url[t])]
            /\ outcome' = [outcome EXCEPT ![t] = "fetch_failed"]
            /\ pc' = [pc EXCEPT ![t] = "done"]
            /\ UNCHANGED <<waits, attempt>>
    /\ UNCHANGED <<store_id, url, response, headers, sent, nreq, fails, first, last, other_vars>>

\* an extraction that depends on the user-agent the request carried
ScrapedByAgent(t) ==
    IF Val(sent[t]).ua = "chrome-win"
    THEN [ret |-> None, how |-> "extracted"]
    ELSE Extracted[store_id[t], Val(response[t]).body, url[t]]

\* what the store's routine makes of the page the caller holds
Scraped(t) == Extracted[store_id[t], Val(response[t]).body, url[t]]

\* lines 121-155: parse the body once and run the store's routine
Parse(t) ==
    /\ pc[t] = "parse"
    /\ result' = [result EXCEPT ![t] = Scraped(t).ret]
    /\ outcome' = [outcome EXCEPT ![t] = Scraped(t).how]
    /\ pc' = [pc EXCEPT ![t] = "done"]
    /\ UNCHANGED <<store_id, url, attempt, response, headers, sent, nreq, waits, fails,
                   first, last, other_vars>>

\* the call returns and its locals are gone; `last` keeps what it extracted
Return(t) ==
    /\ pc[t] = "done"
    /\ pc' = [pc EXCEPT ![t] = "idle"]
    /\ last' = IF outcome[t] \in {"extracted", "no_scraper", "extract_failed"}
               THEN Some([store_id |-> store_id[t], url |-> url[t],
                          body |-> Val(response[t]).body, result |-> result[t]])
               ELSE None
    /\ store_id' = [store_id EXCEPT ![t] = ""]
    /\ url' = [url EXCEPT ![t] = ""]
    /\ attempt' = [attempt EXCEPT ![t] = 0]
    /\ response' = [response EXCEPT ![t] = None]
    /\ result' = [result EXCEPT ![t] = None]
    /\ outcome' = [outcome EXCEPT ![t] = ""]
    /\ sent' = [sent EXCEPT ![t] = None]
    /\ nreq' = [nreq EXCEPT ![t] = 0]
    /\ waits' = [waits EXCEPT ![t] = <<>>]
    /\ fails' = [fails EXCEPT ![t] = <<>>]
    /\ first' = [first EXCEPT ![t] = None]
    /\ UNCHANGED <<headers, other_vars>>

Step(t) ==
    \/ \E id \in StoreIds, u \in Urls : Call(t, id, u)
    \/ Prepare(t)
    \/ Request(t)
    \/ Challenge(t)
    \/ Request2(t)
    \/ Except(t)
    \/ Parse(t)
    \/ Return(t)

\* one caller: the calls of the bot's handler, one after the other
Next == Step("handler")

Spec == Init /\ [][Next]_vars

\* one call from its entry to its return statement
CallStep(t) ==
    \/ \E id \in StoreIds, u \in Urls : Call(t, id, u)
    \/ Prepare(t)
    \/ Request(t)
    \/ Challenge(t)
    \/ Request2(t)
    \/ Except(t)
    \/ Parse(t)

CallNext == CallStep("handler")

\* one call whose thread keeps running: a sleep ends, a request returns or times
\* out (timeout=20), and the call's next statement is executed
FairSpec == Init /\ [][CallNext]_vars /\ WF_vars(CallNext)

-----------------------------------------------------------------------------
(* ProductScraper._clean_price on its own: the argument is drawn from the  *)
(* texts of at most MaxPriceLen characters of PriceChars, and from a few   *)
(* longer price texts in both decimal conventions.                         *)

MaxPriceLen == 3

PriceChars == {"1", "5", ".", ",", "x", "₺"}

RECURSIVE TextsUpTo(_)
TextsUpTo(n) ==
    IF n = 0 THEN {""}
    ELSE TextsUpTo(n - 1) \cup {s \o c : s \in TextsUpTo(n - 1), c \in PriceChars}

PriceInputs == TextsUpTo(MaxPriceLen) \cup {"1.234,56", "1234.56", "₺1.234,56", "199.90", "1.234,56 TL"}

PriceInit ==
    /\ InitScraper
    /\ SweepOff
    /\ ExtractOff
    /\ BotOff
    /\ price_in \in PriceInputs
    /\ cleaned = None

\* one call of _clean_price(price_in)
CleanPriceCall ==
    /\ cleaned = None
    /\ cleaned' = Some(CleanPrice(price_in))
    /\ UNCHANGED <<price_in, scraper_vars, sweep_vars, extract_vars, bot_vars>>

PriceNext == CleanPriceCall

PriceSpec == PriceInit /\ [][PriceNext]_vars

-----------------------------------------------------------------------------
(* Two get_product_info calls at once on the one ProductScraper of the bot: *)
(* the dispatcher's thread (a handler) and the job queue's thread (the      *)
(* sweep) share self.scraper and its session.  The steps of the two calls   *)
(* interleave; the server answers every request with 200 and the page       *)
(* "shop", so each call makes one attempt.                                  *)

\* a call for the generic store and any URL
ConcCall(t) == \E u \in Urls : Call(t, GENERIC_STORE_ID, u)

\* line 100 with the session's headers as they are when the request is built
Served(t) ==
    /\ pc[t] = "get"
    /\ sent' = [sent EXCEPT ![t] = Some(headers)]
    /\ nreq' = [nreq EXCEPT ![t] = @ + 1]
    /\ response' = [response EXCEPT ![t] = Some([status |-> 200, body |-> "shop"])]
    /\ first' = FirstSeen(t, [status |-> 200, body |-> "shop"])
    /\ pc' = [pc EXCEPT ![t] = "parse"]
    /\ UNCHANGED <<store_id, url, attempt, result, outcome, headers, waits, fails, last,
                   other_vars>>

ConcStep(t) ==
    \/ ConcCall(t)
    \/ Prepare(t)
    \/ Served(t)
    \/ Parse(t)
    \/ Return(t)

ConcNext == ConcStep("handler") \/ ConcStep("sweep")

ConcSpec == Init /\ [][ConcNext]_vars

-----------------------------------------------------------------------------
(* Lines 121-155 of get_product_info on their own: the body of a fetched   *)
(* page is parsed and handed to the routine of the store, for every store  *)
(* id, page and URL.                                                       *)

ExtractInit ==
    /\ InitScraper
    /\ PriceIdle
    /\ SweepOff
    /\ BotOff
    /\ ex_call \in [id : Members(STORES), page : AllPages, url : Urls]
    /\ ex_ret = None

\* what the call returns for the page, and which return statement it is
Extract ==
    /\ ex_ret = None
    /\ ex_ret' = Some(Extracted[ex_call.id, ex_call.page, ex_call.url])
    /\ UNCHANGED <<ex_call, scraper_vars, price_vars, sweep_vars, bot_vars>>

ExtractNext == Extract

ExtractSpec == ExtractInit /\ [][ExtractNext]_vars

-----------------------------------------------------------------------------
(* TelegramBot._check_all_products, the periodic sweep, in its two copies  *)
(* (src/bot.py and src/bot_v13.py), over the products table.  Inside the   *)
(* sweep a get_product_info call is one step: it returns any of the values *)
(* the call can return for the product's store and URL (ReturnsOf), and    *)
(* leaves the session's headers as its last attempt set them.              *)

BotModules == {"bot", "bot_v13"}

\* a row of the products table (database.py lines 59-70)
Row(id, user_id, sid, u, title, price, in_stock) ==
    [id |-> id, user_id |-> user_id, store_id |-> sid, url |-> u,
     title |-> title, price |-> price, in_stock |-> in_stock]

\* the prices the rows start with
StoredPrices == {None, Some(<<123456, 2>>)}

\* the tables the sweep starts from: two products of two users
InitialTables ==
    {<<Row(1, 101, "trendyol", "https://shop.example/phone-case-black/p-123.html", "Phone Case", p1, s1),
       Row(2, 102, "generic", "https://shop.example/phone-case-black/p-123.html", "Phone Case", p2, s2)>> :
        p1 \in StoredPrices, p2 \in StoredPrices, s1 \in BOOLEAN, s2 \in BOOLEAN}

\* the values get_product_info(id, u) can return: None for an id outside STORES;
\* else what it returns after the last failed attempt, or for a fetched page
ReturnsOf(id, u) ==
    IF ~StoreRegistered(id) THEN {None}
    ELSE {IF id = GENERIC_STORE_ID THEN Some(FallbackOf[u]) ELSE None}
         \cup {Extracted[id, p, u].ret : p \in PageIds}

\* Database.update_product: the row of product_id rewritten; a title of None
\* violates NOT NULL (database.py line 64), the error is logged and nothing changes
UpdateProduct(tbl, product_id, title, price, in_stock) ==
    IF title = None \/ product_id \notin DOMAIN tbl THEN tbl
    ELSE [tbl EXCEPT ![product_id] =
            [@ EXCEPT !.title = Val(title), !.price = price, !.in_stock = in_stock]]

\* price_changed or stock_changed
Changed(info, product) == info.price # product.price \/ info.in_stock # product.in_stock

\* chat_id and product of the message bot.send_message delivers
Notification(product) == [chat_id |-> product.user_id, product_id |-> product.id]

\* a sweep that stops at the first failure
AbortLoop(i) == Len(products) + 1

\* `continue`, and the end of the except clause: the loop goes on with the next product
Continue(i) == i + 1

SweepInit ==
    /\ InitScraper
    /\ PriceIdle
    /\ ExtractOff
    /\ BotOff
    /\ bot_module \in BotModules
    /\ table \in InitialTables
    /\ products = <<>>
    /\ idx = 0
    /\ spc = "idle"
    /\ product_info = None
    /\ checked = <<>>
    /\ failed = <<>>
    /\ outbox = <<>>

\* the job fires: get_all_products (the empty list on a database error) and loop entry
SweepStart ==
    /\ spc \in {"idle", "finished"}
    /\ \/ products' = table
       \/ products' = <<>>
    /\ idx' = 1
    /\ spc' = "loop"
    /\ product_info' = None
    /\ checked' = <<>>
    /\ failed' = <<>>
    /\ outbox' = <<>>
    /\ UNCHANGED <<bot_module, table, scraper_vars, price_vars, extract_vars, bot_vars>>

\* get_product_info for the product at idx, the `not product_info` test and the comparison
SweepCheck ==
    /\ spc = "loop"
    /\ idx <= Len(products)
    /\ checked' = Append(checked, products[idx].id)
    /\ \E ua \in user_agents :
          headers' = IF StoreRegistered(products[idx].store_id)
                     THEN [ua |-> ua, referer |-> RefererOf[products[idx].url]]
                     ELSE [headers EXCEPT !.ua = ua]
    /\ \E info \in ReturnsOf(products[idx].store_id, products[idx].url) :
          /\ product_info' = info
          /\ IF info = None
             THEN /\ idx' = Continue(idx)
                  /\ spc' = "loop"
                  /\ failed' = Append(failed, products[idx].id)
             ELSE /\ idx' = IF Changed(Val(info), products[idx]) THEN idx ELSE idx + 1
                  /\ spc' = IF Changed(Val(info), products[idx]) THEN "changed" ELSE "loop"
                  /\ UNCHANGED failed
    /\ UNCHANGED <<bot_module, table, products, outbox, call_vars, price_vars, extract_vars, bot_vars>>

\* the row of the product at idx after update_product with the values just read
Updated == UpdateProduct(table, products[idx].id, Val(product_info).title,
                         Val(product_info).price, Val(product_info).in_stock)

\* src/bot.py: the message is sent, then the row is updated; an exception of
\* send_message ends the iteration in the except clause, before the update
NotifyThenUpdate ==
    /\ spc = "changed"
    /\ bot_module = "bot"
    /\ \/ /\ outbox' = Append(outbox, Notification(products[idx]))
          /\ \/ table' = Updated
             \/ UNCHANGED table
          /\ idx' = idx + 1
          /\ UNCHANGED failed
       \/ /\ idx' = Continue(idx)
          /\ failed' = Append(failed, products[idx].id)
          /\ UNCHANGED <<outbox, table>>
    /\ spc' = "loop"
    /\ UNCHANGED <<bot_module, products, product_info, checked, scraper_vars, price_vars, extract_vars, bot_vars>>

\* src/bot_v13.py: the row is updated and the message is composed, then only a
\* log line is written: no message is sent
UpdateOnly ==
    /\ spc = "changed"
    /\ bot_module = "bot_v13"
    /\ \/ /\ table' = Updated
          /\ idx' = idx + 1
          /\ UNCHANGED failed
       \/ /\ idx' = Continue(idx)
          /\ failed' = Append(failed, products[idx].id)
          /\ UNCHANGED table
    /\ spc' = "loop"
    /\ UNCHANGED <<bot_module, products, product_info, checked, outbox, scraper_vars, price_vars, extract_vars, bot_vars>>

\* the loop has run through the list
SweepFinish ==
    /\ spc = "loop"
    /\ idx > Len(products)
    /\ spc' = "finished"
    /\ UNCHANGED <<bot_module, table, products, idx, product_info, checked, failed, outbox,
                   scraper_vars, price_vars, extract_vars, bot_vars>>

SweepNext ==
    \/ SweepStart
    \/ SweepCheck
    \/ NotifyThenUpdate
    \/ UpdateOnly
    \/ SweepFinish

SweepSpec == SweepInit /\ [][SweepNext]_vars

-----------------------------------------------------------------------------
(* Properties *)

\* a call is returning: its result is set
Returning(t) == pc[t] = "done"

\* a call is returning what it made of a page it fetched
Fetched(t) == pc[t] = "done" /\ outcome[t] \in {"extracted", "extract_failed", "no_scraper"}

\* C1: a call whose store_id is not in STORES issues no request at any point, and
\* returns None: it goes from the store lookup straight to its return
C1_UnknownStoreNoRequest ==
    \A t \in Callers :
        (pc[t] # "idle" /\ store_id[t] \notin Members(STORES))
            => /\ pc[t] = "done"
               /\ result[t] = None
               /\ nreq[t] = 0
               /\ sent[t] = None

C1_Witness ==
    \E t \in Callers :
        /\ Returning(t)
        /\ store_id[t] = "pandora"
        /\ outcome[t] = "unknown_store"
        /\ nreq[t] = 0

\* C2: every value a call returns that is not None has a title that is neither
\* None nor the empty text
C2_TitleNeverEmpty ==
    \A t \in Callers :
        (Returning(t) /\ result[t] # None)
            => (Val(result[t]).title # None /\ Val(result[t]).title # Some(""))

\* C3: a call returns None only if its store_id is not in STORES, or its store is
\* not the generic one and its fetch failed after the retries
C3_NoneOnlyOnFailure ==
    \A t \in Callers :
        (Returning(t) /\ result[t] = None)
            => \/ store_id[t] \notin Members(STORES)
               \/ (store_id[t] # GENERIC_STORE_ID /\ outcome[t] = "fetch_failed")

\* the text has no digit
NoDigit(text) == \A i \in 1..Len(text) : ~IsDigit(Ch(text, i))

\* C4: _clean_price returns 1234.56 for "1.234,56", "1234.56" and "₺1.234,56", and
\* None for the empty text and for every text without a digit
C4_CleanPrice ==
    cleaned # None
        => /\ price_in \in {"1.234,56", "1234.56", "₺1.234,56"} => Val(cleaned) = Some(<<123456, 2>>)
           /\ NoDigit(price_in) => Val(cleaned) = None

\* C5: a call whose three attempts all failed returns None for a store other than
\* the generic one, and for the generic store the record whose title is made of
\* the text after the URL's last '/', with no price and in_stock true
C5_ThreeFailures ==
    \A t \in Callers :
        (Returning(t) /\ Len(fails[t]) = MaxAttempts)
            => result[t] = IF store_id[t] = GENERIC_STORE_ID
                           THEN Some([title |-> Some("Ürün (" \o LastField(url[t]) \o ")"),
                                      price |-> None, in_stock |-> TRUE])
                           ELSE None

C5_Witness ==
    \E t \in Callers :
        /\ Returning(t)
        /\ fails[t] = <<"transport", "status", "transport">>
        /\ store_id[t] = GENERIC_STORE_ID
        /\ result[t] = Some([title |-> Some("Ürün (p-123.html)"), price |-> None, in_stock |-> TRUE])

\* the first two requests of the call failed in transport, and its third attempt
\* brought the page the call returns from
TwoFailuresThenSuccess(t) ==
    /\ Fetched(t)
    /\ fails[t] = <<"transport", "transport">>
    /\ first[t] # None
    /\ Val(first[t]).n = 3

\* exactly three requests, the page used being the third response, and the second
\* backoff strictly longer than the first
ThreeRequestsGrowingBackoff(t) ==
    /\ nreq[t] = 3
    /\ Len(waits[t]) = 2
    /\ waits[t][2] > waits[t][1]

\* C6 as stated: after two transport failures and a successful third attempt the
\* call has issued exactly three requests, uses the third response, and waited
\* longer after the second failure than after the first
C6_ExactlyThreeRequests ==
    \A t \in Callers : TwoFailuresThenSuccess(t) => ThreeRequestsGrowingBackoff(t)

\* C6 amended: the same, where the third response carries no anti-bot marker
\* (a marker in it makes the call issue a fourth request and use its response)
C6_ThreeRequestsUnlessChallenged ==
    \A t \in Callers :
        TwoFailuresThenSuccess(t)
            => IF Val(first[t]).anti
               THEN nreq[t] = 4 /\ waits[t] = <<2, 4>>
               ELSE ThreeRequestsGrowingBackoff(t)

C6_Witness ==
    \E t \in Callers :
        /\ TwoFailuresThenSuccess(t)
        /\ ~Val(first[t]).anti
        /\ nreq[t] = 3
        /\ waits[t] = <<2, 4>>
        /\ result[t] # None

\* C7: when the first response of a call carries an anti-bot marker, the request
\* that follows it carries another user-agent than the request before it, and it
\* is the only further request of the call
C7_OneMoreRequestOtherAgent ==
    [][\A t \in Callers :
          /\ (pc[t] = "get2" /\ nreq[t] = Val(first[t]).n /\ nreq'[t] = nreq[t] + 1)
                => Val(sent'[t]).ua # Val(sent[t]).ua
          /\ (pc[t] = "done" /\ pc'[t] = "idle" /\ first[t] # None /\ Val(first[t]).anti)
                => nreq[t] = Val(first[t]).n + 1]_vars

\* the document has a Product block whose offer has price "199.90" and an
\* availability containing "InStock"
HasInStockOffer(doc) ==
    \E i \in 1..Len(doc) :
        /\ doc[i].tag = "script"
        /\ AttrIs(doc[i], "type", "application/ld+json")
        /\ IsProduct(doc[i].json)
        /\ IsDict(Get(doc[i].json, "offers"))
        /\ IsStr(Get(Get(doc[i].json, "offers"), "price"), "199.90")
        /\ Lookup(Get(doc[i].json, "offers"), "availability").k = "str"
        /\ Contains(Get(Get(doc[i].json, "offers"), "availability").s, "InStock")

OfferPages == {p \in PageIds : HasInStockOffer(Document(p))}

\* C8: for every store in STORES, a call that fetched a page with such a block
\* returns price 199.90 and in_stock true
C8_StructuredDataEveryStore ==
    \A t \in Callers :
        (Fetched(t) /\ store_id[t] \in Members(STORES) /\ Val(response[t]).body \in OfferPages)
            => /\ result[t] # None
               /\ Val(result[t]).price = Some(<<1999, 1>>)
               /\ Val(result[t]).in_stock

\* the pages without structured data and without an element any title candidate matches
BarePages == {p \in PageIds : LdScripts(Document(p)) = <<>> /\ GenericDomTitle(Document(p)) = None}

\* C9: for such a page and a URL ending in /phone-case-black/p-123.html the generic
\* store's call returns the title "Phone Case Black", no price, and in_stock false
C9_TitleFromProductSegment ==
    \A t \in Callers :
        (/\ Fetched(t)
         /\ store_id[t] = GENERIC_STORE_ID
         /\ EndsWith(url[t], "/phone-case-black/p-123.html")
         /\ Val(response[t]).body \in BarePages)
            => result[t] = Some([title |-> Some("Phone Case Black"), price |-> None, in_stock |-> FALSE])

IdsOf(n) == [i \in 1..n |-> products[i].id]

\* C11: the sweep passes every product of its list to get_product_info, in order,
\* whatever happened to the products before it: while it runs no product is
\* skipped, and it finishes only after the last one
C11_EveryProductChecked ==
    /\ spc = "loop" => checked = IdsOf(idx - 1) /\ idx <= Len(products) + 1
    /\ spc = "changed" => checked = IdsOf(idx)
    /\ spc = "finished" => checked = IdsOf(Len(products))

C11_Witness ==
    /\ spc = "finished"
    /\ failed = <<1>>
    /\ checked = <<1, 2>>
    /\ product_info # None

\* C12: every step that leaves the point where the sweep has seen that price or
\* stock differs from the stored row sends a message to the row's user
C12_ChangeNotifiesOwner ==
    [][spc = "changed" /\ spc' # "changed"
        => outbox' = Append(outbox, Notification(products[idx]))]_vars

\* a record of title, price and in_stock
IsProductInfo(r) == DOMAIN r = {"title", "price", "in_stock"} /\ r.in_stock \in BOOLEAN

\* C13: whatever the store id, the URL, the responses and the page, a call of
\* get_product_info ends by returning None or a product record: no exception
\* leaves it
C13_NoExceptionPropagates ==
    \A t \in Callers :
        Returning(t) => result[t] = None \/ IsProductInfo(Val(result[t]))

C13_Witness ==
    /\ Returning("handler")
    /\ outcome["handler"] = "fetch_failed"
    /\ store_id["handler"] = "amazon"
    /\ Len(fails["handler"]) = MaxAttempts
    /\ result["handler"] = None

\* a structured-data block that is invalid JSON, has an empty body, or is JSON
\* that is neither an object nor an array
Malformed(e) ==
    /\ e.tag = "script"
    /\ AttrIs(e, "type", "application/ld+json")
    /\ e.json.k \in {"invalid", "nostring", "null", "num", "str"}

\* the document without its malformed blocks
Wellformed(doc) == SelectSeq(doc, LAMBDA e : ~Malformed(e))

\* the pairs of a page with a malformed block and the page it is without that block
Repairs == {pq \in AllPages \X AllPages :
               pq[1] # pq[2] /\ Wellformed(Document(pq[1])) = Document(pq[2])}

\* the parse-and-dispatch step has returned
Extracting == ex_ret # None

\* C14: for a page with a malformed structured-data block the store's routine
\* returns what it returns for the same page without the block
C14_MalformedBlockSkipped ==
    Extracting =>
        \A q \in AllPages :
            <<ex_call.page, q>> \in Repairs
                => Val(ex_ret).ret = Extracted[ex_call.id, q, ex_call.url].ret

\* a generic extraction that returned its own result
GenericExtracted ==
    Extracting /\ ex_call.id = GENERIC_STORE_ID /\ Val(ex_ret).how = "extracted"

\* the pages whose text holds one of the out-of-stock phrases
PhrasePages ==
    {p \in AllPages :
        \E indicator \in out_of_stock_indicators : Contains(Lower(GetText(Document(p))), indicator)}

\* C15: a generic extraction of a page whose text holds an out-of-stock phrase
\* returns in_stock false
C15_OutOfStockPhraseForcesFalse ==
    GenericExtracted /\ ex_call.page \in PhrasePages => ~Val(Val(ex_ret).ret).in_stock

\* the pages with no out-of-stock phrase and no structured availability: no
\* structured-data block and no availability meta element
PlainPages ==
    {p \in AllPages \ PhrasePages :
        /\ LdScripts(Document(p)) = <<>>
        /\ ByTagAttr(Document(p), "meta", "property", "product:availability") = 0
        /\ ByTagAttr(Document(p), "meta", "itemprop", "availability") = 0}

\* the pages with an add-to-cart-like element
CartPages == {p \in AllPages : HasAddToCart(Document(p))}

\* C16: on a page with no out-of-stock phrase and no structured availability a
\* generic extraction returns in_stock true exactly when the page has an
\* add-to-cart-like element or a price was parsed
C16_StockFromCartOrPrice ==
    GenericExtracted /\ ex_call.page \in PlainPages
        => (Val(Val(ex_ret).ret).in_stock
               <=> (ex_call.page \in CartPages \/ Val(Val(ex_ret).ret).price # None))

\* text with its whitespace collapsed: single spaces only, and none at the ends
Collapsed(s) ==
    \A i \in 1..Len(s) :
        IsSpace(Ch(s, i)) => Ch(s, i) = " " /\ i > 1 /\ i < Len(s) /\ ~IsSpace(Ch(s, i + 1))

\* C17: every title returned for the generic store has its whitespace collapsed
\* and is at most 200 characters long
C17_GenericTitleCleaned ==
    Extracting /\ ex_call.id = GENERIC_STORE_ID /\ Val(Val(ex_ret).ret).title # None
        => /\ Collapsed(Val(Val(Val(ex_ret).ret).title))
           /\ Len(Val(Val(Val(ex_ret).ret).title)) <= 200

\* the Product entity of a structured-data block: the block itself, the first
\* Product of its graph container, or the first Product of a top-level array
ProductIn(json) ==
    IF IsProduct(json) THEN json
    ELSE IF IsDict(json) /\ IsList(Get(json, "@graph")) THEN FirstProduct(Get(json, "@graph").items)
    ELSE IF IsList(json) THEN FirstProduct(json.items)
    ELSE JNull

\* the Product entity of the first block, in document order, that contains one
RECURSIVE FirstEntity(_, _)
FirstEntity(doc, scripts) ==
    IF scripts = <<>> THEN JNull
    ELSE IF ProductIn(doc[Head(scripts)].json) # JNull THEN ProductIn(doc[Head(scripts)].json)
    ELSE FirstEntity(doc, Tail(scripts))

\* the pages with several structured-data blocks, and the entity of the first
\* block that has one
SeveralBlocks == {p \in AllPages : Len(LdScripts(Document(p))) > 1}

FirstEntityOf == [p \in SeveralBlocks |-> FirstEntity(Document(p), LdScripts(Document(p)))]

\* C18: on a page with several structured-data blocks a generic extraction returns
\* the name, price and availability of the Product of the first block that
\* contains one
C18_FirstProductBlockWins ==
    GenericExtracted /\ ex_call.page \in SeveralBlocks /\ FirstEntityOf[ex_call.page] # JNull
        => /\ Val(Val(ex_ret).ret).title = Some(Get(FirstEntityOf[ex_call.page], "name").s)
           /\ Val(Val(ex_ret).ret).price = JFloat(Get(Get(FirstEntityOf[ex_call.page], "offers"), "price"))
           /\ Val(Val(ex_ret).ret).in_stock
                 = Contains(Get(Get(FirstEntityOf[ex_call.page], "offers"), "availability").s, "InStock")

\* the title candidates of Trendyol in their priority order, by page, and the
\* text of the first one that matches an element with non-empty text
TrendyolTitleByPriority ==
    [p \in AllPages |->
        FirstText(Document(p), <<ByTagClass(Document(p), "h1", "pr-new-br"),
                                 ByTagClass(Document(p), "h1", "product-name")>>)]

\* C19: the Trendyol title is the text of the first title candidate, in priority
\* order, that matches an element with non-empty text
C19_FirstNonEmptyCandidateWins ==
    Extracting /\ ex_call.id = "trendyol"
        => Val(Val(ex_ret).ret).title = TrendyolTitleByPriority[ex_call.page]

\* the pages without structured data whose only price text is "1.234,56 TL"
PricedPages ==
    {p \in AllPages :
        /\ LdScripts(Document(p)) = <<>>
        /\ \E i \in 1..Len(Document(p)) : Document(p)[i].text = "1.234,56 TL"}

\* C20: whichever store's routine reads the price element "1.234,56 TL", the price
\* it returns is what the normalizer makes of that text, 1234.56
C20_DomPriceNormalizedOnce ==
    /\ CleanPrice("1.234,56 TL") = Some(<<123456, 2>>)
    /\ Extracting /\ ex_call.page \in PricedPages /\ Val(ex_ret).ret # None
          /\ Val(Val(ex_ret).ret).price # None
        => Val(Val(ex_ret).ret).price = Some(<<123456, 2>>)

\* C21: the Referer a request of a call carries is the origin of the call's URL
C21_RefererOfOwnOrigin ==
    \A t \in Callers :
        sent[t] # None => Val(sent[t]).referer = RefererOf[url[t]]

\* C22: a call never starts a fourth attempt and never counts a fourth failure,
\* and a call that has started its attempts returns
C22_AtMostThreeAttempts ==
    /\ [](\A t \in Callers : attempt[t] <= LastAttempt /\ Len(fails[t]) <= MaxAttempts)
    /\ pc["handler"] = "attempt" ~> Returning("handler")

C22_Witness ==
    /\ Returning("handler")
    /\ attempt["handler"] = LastAttempt
    /\ fails["handler"] = <<"status", "transport", "status">>
    /\ nreq["handler"] = 5

\* a 2xx status
Success(status) == status >= 200 /\ status < 300

\* C23: every record a store's routine extracted comes from the body of a response
\* with a 2xx status
C23_ExtractedFrom2xx ==
    \A t \in Callers :
        Returning(t) /\ outcome[t] = "extracted" => Success(Val(response[t]).status)

\* the pages with one structured-data block, a Product with a name and a price
SuppliedPages ==
    {p \in AllPages :
        /\ Len(LdScripts(Document(p))) = 1
        /\ IsProduct(Document(p)[LdScripts(Document(p))[1]].json)}

\* the Product of such a page
SuppliedBy == [p \in SuppliedPages |-> Document(p)[LdScripts(Document(p))[1]].json]

\* the title and the price of the returned record are the name and the offer's
\* price of the page's Product
StructuredReturned ==
    /\ Val(Val(ex_ret).ret).title = Some(Get(SuppliedBy[ex_call.page], "name").s)
    /\ Val(Val(ex_ret).ret).price = JFloat(Get(Get(SuppliedBy[ex_call.page], "offers"), "price"))

\* the text of the document's title element, by page; None where there is none
DocumentTitle ==
    [p \in AllPages |->
        IF ByTag(Document(p), "title") # 0 /\ Document(p)[ByTag(Document(p), "title")].text # ""
        THEN Some(Strip(Document(p)[ByTag(Document(p), "title")].text))
        ELSE None]

HbCartPages ==
    {p \in AllPages : ById(Document(p), "addToCart") # 0 \/ ByClass(Document(p), "add-to-cart") # 0}

\* the pages with a sold-out element of Hepsiburada, and those among them whose
\* element says "tükendi"
HbStatusPages ==
    {p \in AllPages :
        ByClass(Document(p), "product-status-text") # 0 \/ ByClass(Document(p), "out-of-stock-text") # 0}

HbSoldOutPages ==
    {p \in HbStatusPages :
        Contains(Lower(Document(p)[Or(ByClass(Document(p), "product-status-text"),
                                      ByClass(Document(p), "out-of-stock-text"))].text), "tükendi")}

\* C25: for hepsiburada in_stock is true exactly when the page has an add-to-cart
\* element and no sold-out element that says "tükendi"
C25_HepsiburadaStock ==
    Extracting /\ ex_call.id = "hepsiburada"
        => (Val(Val(ex_ret).ret).in_stock
               <=> (ex_call.page \in HbCartPages /\ ex_call.page \notin HbSoldOutPages))

C25_Witness ==
    /\ Extracting
    /\ ex_call.id = "hepsiburada"
    /\ ex_call.page = "hb_status"
    /\ ex_call.page \in HbStatusPages
    /\ Val(Val(ex_ret).ret).in_stock

\* for every page and URL the generic store's dispatch gives a record: the
\* routine's, or the fallback record where the routine raises
GenericPagesNeverNone ==
    \A p \in AllPages, u \in Urls :
        /\ Extracted[GENERIC_STORE_ID, p, u].ret # None
        /\ Extracted[GENERIC_STORE_ID, p, u].how = "extract_failed"
              => Extracted[GENERIC_STORE_ID, p, u].ret = Some(FallbackOf[u])

\* C26: for the generic store a call never returns None: after failed fetches it
\* returns the fallback record, and for every page the routine's record or, where
\* the routine raises, the fallback record
C26_GenericNeverNone ==
    /\ \A t \in Callers :
          Returning(t) /\ store_id[t] = GENERIC_STORE_ID
              => /\ result[t] # None
                 /\ outcome[t] = "fetch_failed" => result[t] = Some(FallbackOf[url[t]])
    /\ GenericPagesNeverNone

C26_Witness ==
    /\ Returning("handler")
    /\ store_id["handler"] = GENERIC_STORE_ID
    /\ url["handler"] = "https://other.example/"
    /\ fails["handler"] = <<"status", "status", "status">>
    /\ result["handler"] = Some(Product(Some("Ürün ()"), None, TRUE))
    /\ Extracted[GENERIC_STORE_ID, "shop_nostring", "https://other.example/"].how = "extract_failed"

\* the pages whose availability element of Amazon says "stokta yok"
AmazonOutPages ==
    {p \in AllPages :
        /\ ById(Document(p), "availability") # 0
        /\ Contains(Lower(Document(p)[ById(Document(p), "availability")].text), "stokta yok")}

\* C27: for amazon a page whose availability element says "Stokta yok" is not
\* reported in stock
C27_AmazonStoktaYok ==
    Extracting /\ ex_call.id = "amazon" /\ ex_call.page \in AmazonOutPages
        => ~Val(Val(ex_ret).ret).in_stock

-----------------------------------------------------------------------------
(* TelegramBot of src/bot_v13.py: the dispatcher and its handlers.  The    *)
(* dispatcher hands an update to the first handler, in the order in which  *)
(* _add_handlers registered them, that accepts it; every handler is in the *)
(* default group.  Inside a handler a get_product_info call is one step    *)
(* that returns any of the values the call can return (InfoOf), and the    *)
(* database answers every statement.                                       *)

\* the configured admin: the value of the environment variable ADMIN_USER_ID
ADMIN_USER_ID == 100

\* the users who send updates: the configured admin, who administers, and user
\* 101, who tracks products; user 102 owns a product and sends nothing
Senders == {ADMIN_USER_ID, 101}

\* the user who tracks products
Trackers == {101}

\* the states of the track conversation, and ConversationHandler.END
SELECTING_STORE == "SELECTING_STORE"

ENTERING_URL == "ENTERING_URL"

CONFIRMING_PRODUCT == "CONFIRMING_PRODUCT"

END == "END"

\* the 'domain' of each entry of STORES
DOMAINS ==
    [trendyol |-> "trendyol.com", hepsiburada |-> "hepsiburada.com", n11 |-> "n11.com",
     amazon |-> "amazon.com.tr", teknosa |-> "teknosa.com",
     mediamarkt |-> "mediamarkt.com.tr", generic |-> ""]

\* a row of the users table (database.py lines 48-54)
UserRow(is_admin, is_authorized) == [is_admin |-> is_admin, is_authorized |-> is_authorized]

\* Database.add_user: a row is inserted unless the user has one
AddUser(tbl, user_id, is_admin, is_authorized) ==
    IF user_id \in DOMAIN tbl THEN tbl
    ELSE [i \in DOMAIN tbl \cup {user_id} |->
            IF i = user_id THEN UserRow(is_admin, is_authorized) ELSE tbl[i]]

\* Database.set_user_authorization: only an existing row is updated
SetUserAuthorization(tbl, user_id, is_authorized) ==
    IF user_id \notin DOMAIN tbl THEN tbl
    ELSE [tbl EXCEPT ![user_id] = [@ EXCEPT !.is_authorized = is_authorized]]

\* Database.is_admin
IsAdmin(tbl, user_id) == user_id \in DOMAIN tbl /\ tbl[user_id].is_admin

\* Database.is_authorized: admins are always authorized
IsAuthorized(tbl, user_id) ==
    user_id \in DOMAIN tbl /\ (tbl[user_id].is_admin \/ tbl[user_id].is_authorized)

\* the handlers' test `not is_authorized(user.id) and not is_admin(user.id)`, negated
Allowed(user_id) == IsAuthorized(users, user_id) \/ IsAdmin(users, user_id)

\* an ownership test that every request passes
AnyoneOwns(tbl, user_id, product_id) == TRUE

\* Database.is_product_owner: SELECT 1 FROM products WHERE id = .. AND user_id = ..
IsProductOwner(tbl, user_id, product_id) ==
    product_id \in DOMAIN tbl /\ tbl[product_id].user_id = user_id

\* Database.add_product: the row is inserted under the id the SERIAL column hands
\* out; a title or store id of None violates NOT NULL, a user without a row the
\* foreign key, and then nothing is inserted
AddProduct(tbl, id, user_id, sid, u, info) ==
    IF info.title = None \/ sid = None \/ user_id \notin DOMAIN users THEN tbl
    ELSE [i \in DOMAIN tbl \cup {id} |->
            IF i = id
            THEN Row(id, user_id, Val(sid), u, Val(info.title), info.price, info.in_stock)
            ELSE tbl[i]]

\* Database.remove_product: DELETE FROM products WHERE id = ..
DeleteProduct(tbl, product_id) == [i \in DOMAIN tbl \ {product_id} |-> tbl[i]]

\* the cap on the ids the SERIAL column hands out
MaxSerial == 3

-----------------------------------------------------------------------------
(* updates *)

Command(user, cmd, args) == [kind |-> "command", user |-> user, cmd |-> cmd, args |-> args]

Text(user, text) == [kind |-> "text", user |-> user, text |-> text]

Callback(user, data) == [kind |-> "callback", user |-> user, data |-> data]

\* the commands of administration, and those of the track conversation
AdminCommands == {"start", "reboot"}

TrackCommands == {"track", "cancel"}

\* the arguments of /authorize: none, or a user id and a flag
AuthorizeArgs == {<<>>, <<"101", "true">>, <<"101", "false">>}

\* the text messages users send: a product URL, one with an upper-case scheme,
\* and a word
Texts == {"https://www.trendyol.com/p-123.html", "HTTPS://www.trendyol.com/p-123.html", "hello"}

\* the callback data of the buttons users press
Buttons ==
    {"store_trendyol", "store_generic", "confirm_yes", "confirm_no",
     "confirm_direct_yes", "confirm_direct_no", "remove_1", "remove_2", "check_1", "check_2"}

Updates ==
    {Command(u, c, <<>>) : u \in Senders, c \in AdminCommands}
    \cup {Command(u, "authorize", a) : u \in Senders, a \in AuthorizeArgs}
    \cup {Command(u, c, <<>>) : u \in Trackers, c \in TrackCommands}
    \cup {Text(u, t) : u \in Trackers, t \in Texts}
    \cup {Callback(u, d) : u \in Trackers, d \in Buttons}

IsCommand(m, c) == m.kind = "command" /\ m.cmd = c

\* \w+
IsWord(s) ==
    s # "" /\ \A i \in 1..Len(s) : IsLetter(Ch(s, i)) \/ IsDigit(Ch(s, i)) \/ Ch(s, i) = "_"

\* \d+
IsNumber(s) == s # "" /\ DigitRun(s) = s

\* [^\s]+
NoSpace(s) == s # "" /\ \A i \in 1..Len(s) : ~IsSpace(Ch(s, i))

\* url_pattern: ^https?://[^\s]+$
UrlPattern(t) ==
    \/ StartsWith(t, "http://") /\ NoSpace(Drop(t, 7))
    \/ StartsWith(t, "https://") /\ NoSpace(Drop(t, 8))

\* the updates that pass Filters.text & ~Filters.command & Filters.regex(url_pattern)
DirectUrls == {m \in Updates : m.kind = "text" /\ UrlPattern(m.text)}

\* ^<prefix>\w+$ and ^<prefix>\d+$ on the data of a callback query
Matches(m, prefix, Rest(_)) ==
    m.kind = "callback" /\ StartsWith(m.data, prefix) /\ Rest(Drop(m.data, Len(prefix)))

\* ^confirm_(yes|no)$ and ^confirm_direct_(yes|no)$
YesNo(s) == s = "yes" \/ s = "no"

\* the updates each CallbackQueryHandler accepts, by the prefix of its pattern
Pressed ==
    [prefix \in {"store_", "confirm_", "remove_", "check_", "confirm_direct_"} |->
        {m \in Updates :
            Matches(m, prefix, LAMBDA rest :
                CASE prefix = "store_" -> IsWord(rest)
                  [] prefix \in {"remove_", "check_"} -> IsNumber(rest)
                  [] OTHER -> YesNo(rest))}]

\* fallbacks=[CommandHandler("cancel", ..)]
Fallback(m) == IF IsCommand(m, "cancel") THEN "_cancel_tracking" ELSE ""

\* ConversationHandler.check_update: outside a conversation the entry point,
\* inside one the handlers of the user's state and then the fallbacks; "" if
\* none accepts the update
ConvHandler(m) ==
    CASE conv[m.user] = END ->
            IF IsCommand(m, "track") THEN "_track_command" ELSE ""
      [] conv[m.user] = SELECTING_STORE ->
            IF m \in Pressed["store_"] THEN "_store_selected" ELSE Fallback(m)
      [] conv[m.user] = ENTERING_URL ->
            IF m.kind = "text" THEN "_url_received" ELSE Fallback(m)
      [] conv[m.user] = CONFIRMING_PRODUCT ->
            IF m \in Pressed["confirm_"] THEN "_confirm_product" ELSE Fallback(m)

\* Dispatcher.process_update over the handlers of _add_handlers, in their order:
\* the name of the first handler that accepts the update, "" if none does
HandlerOf(m) ==
    IF IsCommand(m, "start") THEN "_start_command"
    ELSE IF IsCommand(m, "help") THEN "_help_command"
    ELSE IF IsCommand(m, "list") THEN "_list_command"
    ELSE IF IsCommand(m, "reboot") THEN "_reboot_command"
    ELSE IF IsCommand(m, "authorize") THEN "_authorize_command"
    ELSE IF m \in DirectUrls THEN "_direct_url_handler"
    ELSE IF ConvHandler(m) # "" THEN ConvHandler(m)
    ELSE IF m \in Pressed["remove_"] THEN "_remove_product"
    ELSE IF m \in Pressed["check_"] THEN "_check_product"
    ELSE IF m \in Pressed["confirm_direct_"] THEN "_confirm_direct_product"
    ELSE ""

\* what the dispatcher did with an update
Event(m, handler, accepted, fetch) ==
    [update |-> m, handler |-> handler, accepted |-> accepted, fetch |-> fetch]

\* a get_product_info(store_id, url) call of a handler
Fetch(sid, u) == Some([store_id |-> sid, url |-> u])

\* context.user_data after clear()
NoData ==
    [selected_store |-> None, product_url |-> None, product_info |-> None,
     direct_url |-> None, direct_product_info |-> None]

\* the URLs the handlers pass to get_product_info
BotUrls == Texts \cup {"https://shop.example/phone-case-black/p-123.html"}

\* the pages the server answers the handlers' requests with
BotPages == {"shop"}

\* requests raises MissingSchema for a URL without a scheme
Fetchable(u) == UrlParse(u).scheme # ""

\* the values get_product_info(id, u) can return to a handler: None for no id or
\* an id outside STORES; else what it returns after the last failed attempt, or
\* for a fetched page
InfoOf ==
    [sid \in {None} \cup {Some(id) : id \in {"trendyol", "generic"}}, u \in BotUrls |->
        IF sid = None \/ ~StoreRegistered(Val(sid)) THEN {None}
        ELSE {OuterExcept(Val(sid), u)}
             \cup (IF Fetchable(u)
                   THEN {Dispatch(Val(sid), Document(p), u).ret : p \in BotPages}
                   ELSE {})]

\* the users table an operator keeps: no statement of the program sets is_admin,
\* so the admin's row and the rows it authorized are written into the database
ProvisionedUsers ==
    AddUser(AddUser(AddUser(<<>>, ADMIN_USER_ID, TRUE, FALSE), 101, FALSE, TRUE), 102, FALSE, TRUE)

\* the products of that installation: one of user 101 and one of user 102
ProvisionedTable ==
    <<Row(1, 101, "trendyol", "https://shop.example/phone-case-black/p-123.html",
          "Phone Case", Some(<<123456, 2>>), TRUE),
      Row(2, 102, "generic", "https://shop.example/phone-case-black/p-123.html",
          "Phone Case", None, TRUE)>>

\* what the handlers leave alone
bot_rest ==
    <<scraper_vars, price_vars, extract_vars,
      bot_module, products, idx, spc, product_info, checked, failed, outbox>>

\* the bot starts on an empty database or on the one its operator provisioned;
\* no conversation is open
BotInit ==
    /\ InitScraper
    /\ PriceIdle
    /\ ExtractOff
    /\ bot_module = "bot_v13"
    /\ products = <<>>
    /\ idx = 0
    /\ spc = "off"
    /\ product_info = None
    /\ checked = <<>>
    /\ failed = <<>>
    /\ outbox = <<>>
    /\ \/ users = <<>> /\ table = <<>> /\ serial = 0
       \/ users = ProvisionedUsers /\ table = ProvisionedTable /\ serial = 2
    /\ conv = [u \in Senders |-> END]
    /\ user_data = [u \in Senders |-> NoData]
    /\ event = None

\* _start_command: add_user(user.id) with the defaults, then the authorization test
StartCommand ==
    \E m \in Updates :
        /\ HandlerOf(m) = "_start_command"
        /\ users' = AddUser(users, m.user, FALSE, FALSE)
        /\ event' = Event(m, "_start_command",
                          IsAuthorized(users', m.user) \/ IsAdmin(users', m.user), None)
        /\ UNCHANGED <<table, serial, conv, user_data, bot_rest>>

\* _reboot_command: admins only; stop() and start() keep the dispatcher's state
RebootCommand ==
    \E m \in Updates :
        /\ HandlerOf(m) = "_reboot_command"
        /\ event' = Event(m, "_reboot_command", IsAdmin(users, m.user), None)
        /\ UNCHANGED <<users, table, serial, conv, user_data, bot_rest>>

\* the words /authorize reads as true
TrueWords == {"true", "1", "yes", "evet"}

\* lines 570-584: two arguments, int(args[0]), then set_user_authorization
Authorize(tbl, args) ==
    IF Len(args) < 2 \/ ~IsNumber(args[1]) THEN tbl
    ELSE SetUserAuthorization(tbl, DigitsValue(args[1]), Lower(args[2]) \in TrueWords)

\* _authorize_command: admins only
AuthorizeCommand ==
    \E m \in Updates :
        /\ HandlerOf(m) = "_authorize_command"
        /\ users' = IF IsAdmin(users, m.user) THEN Authorize(users, m.args) ELSE users
        /\ event' = Event(m, "_authorize_command", IsAdmin(users, m.user), None)
        /\ UNCHANGED <<table, serial, conv, user_data, bot_rest>>

\* _track_command: the conversation opens for an authorized user
TrackCommand ==
    \E m \in Updates :
        /\ HandlerOf(m) = "_track_command"
        /\ conv' = [conv EXCEPT ![m.user] = IF Allowed(m.user) THEN SELECTING_STORE ELSE END]
        /\ event' = Event(m, "_track_command", Allowed(m.user), None)
        /\ UNCHANGED <<users, table, serial, user_data, bot_rest>>

\* _store_selected: query.data.split('_')[1] is stored as selected_store
StoreSelected ==
    \E m \in Updates :
        /\ HandlerOf(m) = "_store_selected"
        /\ user_data' = [user_data EXCEPT ![m.user] =
                            [@ EXCEPT !.selected_store = Some(Split(m.data, "_")[2])]]
        /\ conv' = [conv EXCEPT ![m.user] = ENTERING_URL]
        /\ event' = Event(m, "_store_selected", TRUE, None)
        /\ UNCHANGED <<users, table, serial, bot_rest>>

\* lines 263-274: a named store whose domain is not in the URL's netloc
WrongDomain(sid, u) ==
    /\ sid # None
    /\ Val(sid) # GENERIC_STORE_ID
    /\ StoreRegistered(Val(sid))
    /\ DOMAINS[Val(sid)] # ""
    /\ ~Contains(UrlParse(u).netloc, DOMAINS[Val(sid)])

\* _url_received: the URL is extracted with the selected store's id
UrlReceived ==
    \E m \in Updates :
        /\ HandlerOf(m) = "_url_received"
        /\ \/ /\ WrongDomain(user_data[m.user].selected_store, Strip(m.text))
              /\ user_data' = [user_data EXCEPT ![m.user] =
                                  [@ EXCEPT !.product_url = Some(Strip(m.text))]]
              /\ conv' = [conv EXCEPT ![m.user] = END]
              /\ event' = Event(m, "_url_received", FALSE, None)
           \/ /\ ~WrongDomain(user_data[m.user].selected_store, Strip(m.text))
              /\ \E info \in InfoOf[user_data[m.user].selected_store, Strip(m.text)] :
                    /\ user_data' = [user_data EXCEPT ![m.user] =
                                        [@ EXCEPT !.product_url = Some(Strip(m.text)),
                                                  !.product_info = IF info = None THEN @ ELSE info]]
                    /\ conv' = [conv EXCEPT ![m.user] =
                                   IF info = None THEN END ELSE CONFIRMING_PRODUCT]
                    /\ event' = Event(m, "_url_received", info # None,
                                      Fetch(user_data[m.user].selected_store, Strip(m.text)))
        /\ UNCHANGED <<users, table, serial, bot_rest>>

\* the yes branch of a confirmation: add_product with what user_data holds; a
\* missing product_info raises inside the try block
Adds(choice, data_url, data_info) == choice = "yes" /\ data_url # None /\ data_info # None

\* _confirm_product
ConfirmProduct ==
    \E m \in Updates :
        /\ HandlerOf(m) = "_confirm_product"
        /\ IF Adds(Split(m.data, "_")[2], user_data[m.user].product_url,
                   user_data[m.user].product_info)
           THEN /\ serial < MaxSerial
                /\ serial' = serial + 1
                /\ table' = AddProduct(table, serial + 1, m.user,
                                       user_data[m.user].selected_store,
                                       Val(user_data[m.user].product_url),
                                       Val(user_data[m.user].product_info))
           ELSE UNCHANGED <<table, serial>>
        /\ user_data' = [user_data EXCEPT ![m.user] = NoData]
        /\ conv' = [conv EXCEPT ![m.user] = END]
        /\ event' = Event(m, "_confirm_product", table' # table, None)
        /\ UNCHANGED <<users, bot_rest>>

\* _cancel_tracking
CancelTracking ==
    \E m \in Updates :
        /\ HandlerOf(m) = "_cancel_tracking"
        /\ user_data' = [user_data EXCEPT ![m.user] = NoData]
        /\ conv' = [conv EXCEPT ![m.user] = END]
        /\ event' = Event(m, "_cancel_tracking", TRUE, None)
        /\ UNCHANGED <<users, table, serial, bot_rest>>

\* _direct_url_handler: authorized users only; always the generic store
DirectUrlHandler ==
    \E m \in Updates :
        /\ HandlerOf(m) = "_direct_url_handler"
        /\ \/ /\ ~Allowed(m.user)
              /\ event' = Event(m, "_direct_url_handler", FALSE, None)
              /\ UNCHANGED user_data
           \/ /\ Allowed(m.user)
              /\ \E info \in InfoOf[Some(GENERIC_STORE_ID), Strip(m.text)] :
                    /\ user_data' =
                          IF info = None THEN user_data
                          ELSE [user_data EXCEPT ![m.user] =
                                   [@ EXCEPT !.direct_url = Some(Strip(m.text)),
                                             !.direct_product_info = info]]
                    /\ event' = Event(m, "_direct_url_handler", info # None,
                                      Fetch(Some(GENERIC_STORE_ID), Strip(m.text)))
        /\ UNCHANGED <<users, table, serial, conv, bot_rest>>

\* _confirm_direct_product
ConfirmDirectProduct ==
    \E m \in Updates :
        /\ HandlerOf(m) = "_confirm_direct_product"
        /\ IF Adds(Split(m.data, "_")[3], user_data[m.user].direct_url,
                   user_data[m.user].direct_product_info)
           THEN /\ serial < MaxSerial
                /\ serial' = serial + 1
                /\ table' = AddProduct(table, serial + 1, m.user, Some(GENERIC_STORE_ID),
                                       Val(user_data[m.user].direct_url),
                                       Val(user_data[m.user].direct_product_info))
           ELSE UNCHANGED <<table, serial>>
        /\ user_data' = [user_data EXCEPT ![m.user] = NoData]
        /\ event' = Event(m, "_confirm_direct_product", table' # table, None)
        /\ UNCHANGED <<users, conv, bot_rest>>

\* int(query.data.split('_')[1])
ProductId(m) == DigitsValue(Split(m.data, "_")[2])

\* _remove_product: the owner's product is deleted
RemoveProduct ==
    \E m \in Updates :
        /\ HandlerOf(m) = "_remove_product"
        /\ table' = IF IsProductOwner(table, m.user, ProductId(m))
                    THEN DeleteProduct(table, ProductId(m))
                    ELSE table
        /\ event' = Event(m, "_remove_product", IsProductOwner(table, m.user, ProductId(m)), None)
        /\ UNCHANGED <<users, serial, conv, user_data, bot_rest>>

\* _check_product: the owner's product is fetched and its row rewritten
CheckProduct ==
    \E m \in Updates :
        /\ HandlerOf(m) = "_check_product"
        /\ \/ /\ ~IsProductOwner(table, m.user, ProductId(m)) \/ ProductId(m) \notin DOMAIN table
              /\ event' = Event(m, "_check_product", FALSE, None)
              /\ UNCHANGED table
           \/ /\ IsProductOwner(table, m.user, ProductId(m))
              /\ ProductId(m) \in DOMAIN table
              /\ \E info \in InfoOf[Some(table[ProductId(m)].store_id), table[ProductId(m)].url] :
                    /\ table' = IF info = None THEN table
                                ELSE UpdateProduct(table, ProductId(m), Val(info).title,
                                                   Val(info).price, Val(info).in_stock)
                    /\ event' = Event(m, "_check_product", info # None,
                                      Fetch(Some(table[ProductId(m)].store_id),
                                            table[ProductId(m)].url))
        /\ UNCHANGED <<users, serial, conv, user_data, bot_rest>>

\* no handler accepts the update
Dropped ==
    \E m \in Updates :
        /\ HandlerOf(m) = ""
        /\ event' = None
        /\ UNCHANGED <<users, table, serial, conv, user_data, bot_rest>>

BotNext ==
    \/ StartCommand
    \/ RebootCommand
    \/ AuthorizeCommand
    \/ TrackCommand
    \/ StoreSelected
    \/ UrlReceived
    \/ ConfirmProduct
    \/ CancelTracking
    \/ DirectUrlHandler
    \/ ConfirmDirectProduct
    \/ RemoveProduct
    \/ CheckProduct
    \/ Dropped

BotSpec == BotInit /\ [][BotNext]_vars

-----------------------------------------------------------------------------
(* Properties of the dispatcher *)

\* a store other than the generic one was selected
NamedStore(sid) == sid # None /\ Val(sid) # GENERIC_STORE_ID

\* the text starts with http:// or https://
SchemeUrl(t) == StartsWith(t, "http://") \/ StartsWith(t, "https://")

\* C28: in the track conversation, once a named store is selected, a message
\* that starts with http:// or https:// is taken by _url_received, and what is
\* extracted for it is extracted with the selected store's id
C28_UrlStepTakesUrl ==
    [][\A u \in Senders :
          /\ conv[u] = ENTERING_URL
          /\ NamedStore(user_data[u].selected_store)
          /\ event' # None
          /\ event'.update.kind = "text"
          /\ event'.update.user = u
          /\ SchemeUrl(event'.update.text)
          => /\ event'.handler = "_url_received"
             /\ event'.fetch # None
                  => Val(event'.fetch).store_id = user_data[u].selected_store]_vars

\* the dispatcher handed its last update, one of user_id, to `handler`
Handled(handler, user_id) ==
    event # None /\ event.handler = handler /\ event.update.user = user_id

\* C29: once the user with the id ADMIN_USER_ID has sent /start that user is an
\* admin, and the /authorize and /reboot commands of that user are accepted
C29_ConfiguredAdminIsAdmin ==
    /\ Handled("_start_command", ADMIN_USER_ID) => IsAdmin(users, ADMIN_USER_ID)
    /\ ADMIN_USER_ID \in DOMAIN users
       /\ (Handled("_authorize_command", ADMIN_USER_ID) \/ Handled("_reboot_command", ADMIN_USER_ID))
       => event.accepted

\* the remove and check callbacks
ProductCallbacks == {"_remove_product", "_check_product"}

\* the update is a remove or check request that names a product of another user
NamesForeignProduct(e, tbl) ==
    /\ e.handler \in ProductCallbacks
    /\ ProductId(e.update) \in DOMAIN tbl
    /\ tbl[ProductId(e.update)].user_id # e.update.user

\* C30: a remove or check request that names a product of another user leaves
\* the products table as it is and makes no get_product_info call
C30_OnlyTheOwnerRemovesOrChecks ==
    [][event' # None /\ NamesForeignProduct(event', table)
          => table' = table /\ event'.fetch = None]_vars

\* a user pressed remove or check on a product of another user, and was refused
C30_Witness ==
    event # None /\ NamesForeignProduct(event, table) /\ ~event.accepted

\* the database and the conversations stay within their types
BotTypeOK ==
    /\ serial \in 0..MaxSerial
    /\ DOMAIN table \subseteq 1..serial
    /\ \A u \in Senders : conv[u] \in {END, SELECTING_STORE, ENTERING_URL, CONFIRMING_PRODUCT}

=============================================================================
